---- MODULE Spec2Model ----
(***************************************************************************)
(* A model of sql_query_tools.Postgres: the statement builders             *)
(* (build_update, build_insert, build_delete), the literal-quoting         *)
(* primitive _single_quote, get_table_name, the datatype check             *)
(* validate_dtype, the batch runner execute and the coercion helper        *)
(* assert_value_dtype.                                                     *)
(*                                                                         *)
(* Text is modelled as a sequence of one-character strings, so that        *)
(* quoting, joining, replacing and formatting are computed character by    *)
(* character as the Python code computes them.  A Python value is a record *)
(* tagged with its type name.                                              *)
(***************************************************************************)
EXTENDS Integers, Sequences, FiniteSets, TLC

VARIABLES pc, op, args, result

vars == <<pc, op, args, result>>

(***************************************************************************)
(* Bounds of the model.                                                    *)
(***************************************************************************)
\* longest list of columns / values / primary-key values passed to a builder
MaxCols == 2
\* longest text over QuoteAlphabet passed to _single_quote
MaxStrLen == 4

(***************************************************************************)
(* Text helpers (Python str operations).                                   *)
(***************************************************************************)
RECURSIVE Flatten(_)
\* concatenation of a sequence of texts
Flatten(ss) == IF ss = <<>> THEN <<>> ELSE Head(ss) \o Flatten(Tail(ss))

\* does text s start with text p
StartsWith(s, p) == Len(s) >= Len(p) /\ SubSeq(s, 1, Len(p)) = p

\* the text s without its first n characters
Drop(s, n) == SubSeq(s, n + 1, Len(s))

RECURSIVE Replace(_, _, _)
\* str.replace(old, new): left to right, non-overlapping; old is not empty
Replace(s, old, new) ==
    IF s = <<>> THEN <<>>
    ELSE IF StartsWith(s, old) THEN new \o Replace(Drop(s, Len(old)), old, new)
    ELSE <<Head(s)>> \o Replace(Tail(s), old, new)

RECURSIVE Join(_, _)
\* sep.join(parts)
Join(sep, parts) ==
    IF parts = <<>> THEN <<>>
    ELSE IF Len(parts) = 1 THEN parts[1]
    ELSE parts[1] \o sep \o Join(sep, Tail(parts))

\* 'x in s' for texts: x occurs in s as a substring
IsSubstr(x, s) == \E i \in 1..(Len(s) - Len(x) + 1) : SubSeq(s, i, i + Len(x) - 1) = x

UpperChars == <<"A","B","C","D","E","F","G","H","I","J","K","L","M",
                "N","O","P","Q","R","S","T","U","V","W","X","Y","Z">>
LowerChars == <<"a","b","c","d","e","f","g","h","i","j","k","l","m",
                "n","o","p","q","r","s","t","u","v","w","x","y","z">>

LowerChar(c) ==
    IF \E i \in 1..Len(UpperChars) : UpperChars[i] = c
    THEN LowerChars[CHOOSE i \in 1..Len(UpperChars) : UpperChars[i] = c]
    ELSE c

UpperChar(c) ==
    IF \E i \in 1..Len(LowerChars) : LowerChars[i] = c
    THEN UpperChars[CHOOSE i \in 1..Len(LowerChars) : LowerChars[i] = c]
    ELSE c

\* str.lower() and str.upper()
Lower(s) == [i \in 1..Len(s) |-> LowerChar(s[i])]
Upper(s) == [i \in 1..Len(s) |-> UpperChar(s[i])]

Whitespace == {" ", "\n", "\t", "\r"}

RECURSIVE LStrip(_)
LStrip(s) == IF s # <<>> /\ Head(s) \in Whitespace THEN LStrip(Tail(s)) ELSE s

RECURSIVE RStrip(_)
RStrip(s) ==
    IF s # <<>> /\ s[Len(s)] \in Whitespace THEN RStrip(SubSeq(s, 1, Len(s) - 1)) ELSE s

\* str.strip()
Strip(s) == RStrip(LStrip(s))

Digits == <<"0","1","2","3","4","5","6","7","8","9">>

IsDigit(c) == \E i \in 1..10 : Digits[i] = c

RECURSIVE NatStr(_)
\* decimal digits of a natural number
NatStr(n) == IF n < 10 THEN <<Digits[n + 1]>> ELSE NatStr(n \div 10) \o <<Digits[(n % 10) + 1]>>

\* str(n) of a Python int
IntStr(n) == IF n < 0 THEN <<"-">> \o NatStr(-n) ELSE NatStr(n)

(***************************************************************************)
(* Python values.  t is type(v).__name__; s is the text of a str (or the   *)
(* spelling 'nan' / 'inf' of a non-finite float); n is the int, or the     *)
(* mantissa of a finite float whose value is n / 10^d; b is the bool;      *)
(* items are the elements of a list.                                       *)
(***************************************************************************)
PyVal(t, s, n, d, b, items) == [t |-> t, s |-> s, n |-> n, d |-> d, b |-> b, items |-> items]

PyNone == PyVal("NoneType", <<>>, 0, 0, FALSE, <<>>)
PyStr(s) == PyVal("str", s, 0, 0, FALSE, <<>>)
PyInt(n) == PyVal("int", <<>>, n, 0, FALSE, <<>>)
PyBool(b) == PyVal("bool", <<>>, 0, 0, b, <<>>)
PyFloat(n, d) == PyVal("float", <<>>, n, d, FALSE, <<>>)
PyFloatNaN == PyVal("float", <<"n","a","n">>, 0, 0, FALSE, <<>>)
PyFloatInf == PyVal("float", <<"i","n","f">>, 0, 0, FALSE, <<>>)
PyList(items) == PyVal("list", <<>>, 0, 0, FALSE, items)
\* a datetime.date and a datetime.datetime, s their text
PyDate(s) == PyVal("date", s, 0, 0, FALSE, <<>>)
PyDateTime(s, items) == PyVal("datetime", s, 0, 0, FALSE, items)

\* isinstance(v, int): bool is a subclass of int
IsInstanceInt(v) == v.t \in {"int", "bool"}

RECURSIVE Pow10(_)
Pow10(k) == IF k = 0 THEN 1 ELSE 10 * Pow10(k - 1)

RECURSIVE ZeroPad(_, _)
\* text s padded on the left with zeros to width w
ZeroPad(s, w) == IF Len(s) >= w THEN s ELSE ZeroPad(<<"0">> \o s, w)

RECURSIVE FloatNorm(_, _)
\* the mantissa and scale of n / 10^d without trailing fractional zeros
FloatNorm(n, d) == IF d > 0 /\ n % 10 = 0 THEN FloatNorm(n \div 10, d - 1) ELSE <<n, d>>

\* positional notation of the non-negative m / 10^k, m without trailing zeros
FixedStr(m, k) ==
    IF k = 0 THEN NatStr(m) \o <<".", "0">>
    ELSE NatStr(m \div Pow10(k)) \o <<".">> \o ZeroPad(NatStr(m % Pow10(k)), k)

Abs(n) == IF n < 0 THEN -n ELSE n

\* str(x) of a finite float n / 10^d (positional notation)
FloatStr(n, d) ==
    (IF n < 0 THEN <<"-">> ELSE <<>>)
        \o FixedStr(FloatNorm(Abs(n), d)[1], FloatNorm(Abs(n), d)[2])

\* str(v)
Str(v) ==
    CASE v.t = "str" -> v.s
      [] v.t = "int" -> IntStr(v.n)
      [] v.t = "bool" -> IF v.b THEN <<"T","r","u","e">> ELSE <<"F","a","l","s","e">>
      [] v.t = "float" -> IF v.s # <<>> THEN v.s ELSE FloatStr(v.n, v.d)
      [] v.t = "NoneType" -> <<"N","o","n","e">>
      [] v.t \in {"date", "datetime"} -> v.s

(***************************************************************************)
(* Parsing numbers out of text: int(s) and float(s).                       *)
(***************************************************************************)
\* digits, single underscores allowed between digits
IsDigitRun(s) ==
    /\ s # <<>>
    /\ IsDigit(s[1]) /\ IsDigit(s[Len(s)])
    /\ \A i \in 1..Len(s) : IsDigit(s[i]) \/ s[i] = "_"
    /\ \A i \in 1..(Len(s) - 1) : ~(s[i] = "_" /\ s[i + 1] = "_")

DigitVal(c) == (CHOOSE i \in 1..10 : Digits[i] = c) - 1

RECURSIVE DigitRunVal(_, _)
\* the number a digit run spells, after acc
DigitRunVal(s, acc) ==
    IF s = <<>> THEN acc
    ELSE IF Head(s) = "_" THEN DigitRunVal(Tail(s), acc)
    ELSE DigitRunVal(Tail(s), 10 * acc + DigitVal(Head(s)))

\* the digits of a digit run
DigitsOnly(s) == SelectSeq(s, IsDigit)

HasSign(s) == s # <<>> /\ Head(s) \in {"+", "-"}
Unsigned(s) == IF HasSign(s) THEN Tail(s) ELSE s
SignOf(s) == IF s # <<>> /\ Head(s) = "-" THEN -1 ELSE 1

\* int(s) succeeds on text s
IntParses(s) == IsDigitRun(Unsigned(Strip(s)))

\* int(s), where it succeeds
IntOf(s) == SignOf(Strip(s)) * DigitRunVal(Unsigned(Strip(s)), 0)

\* index of the first character of s that is in set cs, or 0
FirstIn(s, cs) ==
    IF \E i \in 1..Len(s) : s[i] \in cs
    THEN CHOOSE i \in 1..Len(s) : s[i] \in cs /\ \A j \in 1..(i - 1) : s[j] \notin cs
    ELSE 0

\* the part of text m before position p (all of m when p = 0), and the part after it
Before(m, p) == IF p = 0 THEN m ELSE SubSeq(m, 1, p - 1)
After(m, p) == IF p = 0 THEN <<>> ELSE Drop(m, p)

\* an integer part ip and a fraction part fp make a mantissa
PartsParse(ip, fp) ==
    /\ (ip # <<>> \/ fp # <<>>)
    /\ (ip = <<>> \/ IsDigitRun(ip))
    /\ (fp = <<>> \/ IsDigitRun(fp))

\* the mantissa m of a decimal literal: digits with at most one point
MantissaParses(m) ==
    PartsParse(Before(m, FirstIn(m, {"."})), After(m, FirstIn(m, {"."})))

ExponentParses(x) == IsDigitRun(Unsigned(x))

FloatWords == {<<"i","n","f">>, <<"i","n","f","i","n","i","t","y">>, <<"n","a","n">>}

\* the unsigned, stripped text u is a float literal whose exponent mark is at e
UnsignedFloatParses(u, e) ==
    \/ Lower(u) \in FloatWords
    \/ /\ e = 0
       /\ MantissaParses(u)
    \/ /\ e > 0
       /\ MantissaParses(SubSeq(u, 1, e - 1))
       /\ ExponentParses(Drop(u, e))

\* float(s) succeeds on text s
FloatParses(s) ==
    UnsignedFloatParses(Unsigned(Strip(s)), FirstIn(Unsigned(Strip(s)), {"e", "E"}))

\* the float sg * n * 10^(x - d)
Scaled(sg, n, d, x) ==
    IF x >= d THEN PyFloat(sg * n * Pow10(x - d), 0) ELSE PyFloat(sg * n, d - x)

\* the float of sign sg, integer part ip, fraction digits fp and exponent x
DecimalOf(sg, ip, fp, x) == Scaled(sg, DigitRunVal(ip \o fp, 0), Len(fp), x)

\* the float of sign sg, mantissa m and exponent x
MantissaOf(sg, m, x) ==
    DecimalOf(sg, Before(m, FirstIn(m, {"."})), DigitsOnly(After(m, FirstIn(m, {"."}))), x)

\* the float the unsigned text u spells, its exponent mark at e
UnsignedFloatOf(sg, u, e) ==
    IF Lower(u) = <<"n","a","n">> THEN PyFloatNaN
    ELSE IF Lower(u) \in FloatWords
    THEN PyVal("float", (IF sg < 0 THEN <<"-">> ELSE <<>>) \o <<"i","n","f">>, 0, 0, FALSE, <<>>)
    ELSE IF e = 0 THEN MantissaOf(sg, u, 0)
    ELSE MantissaOf(sg, SubSeq(u, 1, e - 1),
                    SignOf(Drop(u, e)) * DigitRunVal(Unsigned(Drop(u, e)), 0))

\* float(s), where it succeeds
FloatOf(s) ==
    UnsignedFloatOf(SignOf(Strip(s)), Unsigned(Strip(s)),
                    FirstIn(Unsigned(Strip(s)), {"e", "E"}))

(***************************************************************************)
(* utils.py                                                                *)
(***************************************************************************)
\* ensurelist(val): [val] unless val is a list already
ensurelist(val) == IF val.t = "list" THEN val ELSE PyList(<<val>>)

valid_dtypes == {"bool", "str", "string", "int", "integer", "float",
                 "date", "datetime", "path", "path exists"}

TrueWords == {<<"t","r","u","e">>, <<"t">>, <<"y","e","s">>, <<"y">>}
FalseWords == {<<"f","a","l","s","e">>, <<"f">>, <<"n","o">>, <<"n">>}

\* the boolean a lower-case word spells, None when it spells none
BoolWord(w) ==
    IF w \in TrueWords THEN PyBool(TRUE)
    ELSE IF w \in FalseWords THEN PyBool(FALSE)
    ELSE PyNone

\* str.isdigit()
IsDigitStr(s) == s # <<>> /\ \A i \in 1..Len(s) : IsDigit(s[i])

\* int(value): the exception it raises ("none" when it succeeds) and its result
IntCall(value) ==
    CASE IsInstanceInt(value) ->
            [exc |-> "none", val |-> PyInt(IF value.t = "bool" THEN (IF value.b THEN 1 ELSE 0) ELSE value.n)]
      [] value.t = "str" ->
            IF IntParses(value.s) THEN [exc |-> "none", val |-> PyInt(IntOf(value.s))]
            ELSE [exc |-> "ValueError", val |-> PyNone]
      [] value.t = "float" ->
            IF value.s = <<"n","a","n">> THEN [exc |-> "ValueError", val |-> PyNone]
            ELSE IF value.s # <<>> THEN [exc |-> "OverflowError", val |-> PyNone]
            ELSE [exc |-> "none",
                  val |-> PyInt((IF value.n < 0 THEN -1 ELSE 1) * (Abs(value.n) \div Pow10(value.d)))]
      [] OTHER -> [exc |-> "TypeError", val |-> PyNone]

\* float(value): the exception it raises ("none" when it succeeds) and its result
FloatCall(value) ==
    CASE value.t = "float" -> [exc |-> "none", val |-> value]
      [] value.t = "int" -> [exc |-> "none", val |-> PyFloat(value.n, 0)]
      [] value.t = "bool" -> [exc |-> "none", val |-> PyFloat(IF value.b THEN 1 ELSE 0, 0)]
      [] value.t = "str" ->
            IF FloatParses(value.s) THEN [exc |-> "none", val |-> FloatOf(value.s)]
            ELSE [exc |-> "ValueError", val |-> PyNone]
      [] OTHER -> [exc |-> "TypeError", val |-> PyNone]

\* the try/except around a conversion: the error is re-raised under stop, logged otherwise
TryConvert(r, stop) ==
    IF r.exc = "none" THEN r
    ELSE IF stop THEN r
    ELSE [exc |-> "none", val |-> PyNone]

\* rgx.sep
DateSeps == {".", "/", "-", "_", ":"}

\* re.search(anchor(rgx.date), s)
DateMatches(s) ==
    /\ Len(s) = 10
    /\ \A i \in {1, 2, 3, 4, 6, 7, 9, 10} : IsDigit(s[i])
    /\ s[5] \in DateSeps /\ s[8] \in DateSeps

\* re.search(anchor(rgx.datetime), s)
DatetimeMatches(s) ==
    /\ Len(s) = 19
    /\ DateMatches(SubSeq(s, 1, 10))
    /\ s[11] = " "
    /\ \A i \in {12, 13, 15, 16, 18, 19} : IsDigit(s[i])
    /\ s[14] \in DateSeps /\ s[17] \in DateSeps

\* one or two digits, ':', one or two digits
TzMatches(z) ==
    \E k \in {2, 3} :
        /\ Len(z) \in {k + 1, k + 2}
        /\ z[k] = ":"
        /\ \A i \in 1..Len(z) : i # k => IsDigit(z[i])

\* re.search(anchor(rgx.datetime_timezone), s)
DatetimeTimezoneMatches(s) ==
    /\ Len(s) > 20
    /\ DatetimeMatches(SubSeq(s, 1, 19))
    /\ s[20] \in {"-", "+"}
    /\ TzMatches(SubSeq(s, 21, Len(s)))

\* re.search(anchor(rgx.datetime_microsecond), s)
DatetimeMicrosecondMatches(s) ==
    /\ Len(s) > 20
    /\ DatetimeMatches(SubSeq(s, 1, 19))
    /\ s[20] = "."
    /\ IsDigitStr(SubSeq(s, 21, Len(s)))

\* int(m.group(...)) of the digits of s from position i to position j
Group(s, i, j) == DigitRunVal(SubSeq(s, i, j), 0)

IsLeap(y) == (y % 4 = 0 /\ y % 100 # 0) \/ y % 400 = 0

DaysInMonth(y, m) ==
    IF m = 2 THEN (IF IsLeap(y) THEN 29 ELSE 28)
    ELSE IF m \in {4, 6, 9, 11} THEN 30 ELSE 31

\* datetime.datetime(year, month, day, hour, minute, second, microsecond, tzinfo): the
\* exception it raises ("none" when it succeeds) and the datetime, its fields as items
DatetimeCall(y, mo, d, h, mi, sec, us, tz) ==
    IF /\ y \in 1..9999 /\ mo \in 1..12 /\ d \in 1..DaysInMonth(y, mo)
       /\ h \in 0..23 /\ mi \in 0..59 /\ sec \in 0..59 /\ us \in 0..999999
    THEN [exc |-> "none",
          val |-> PyDateTime(<<>>, <<PyInt(y), PyInt(mo), PyInt(d), PyInt(h), PyInt(mi),
                                     PyInt(sec), PyInt(us), tz>>)]
    ELSE [exc |-> "ValueError", val |-> PyNone]

\* the date branch, s being str(value).strip()
date_coerced(s) ==
    IF DateMatches(s)
    THEN DatetimeCall(Group(s, 1, 4), Group(s, 6, 7), Group(s, 9, 10), 0, 0, 0, 0, PyNone)
    ELSE [exc |-> "none", val |-> PyNone]

\* tzoffset(None, second_offset), second_offset computed from tz_sign and tz_hour
second_offset(s) ==
    PyInt((IF s[20] = "-" THEN -1 ELSE 1)
             * DigitRunVal(Before(SubSeq(s, 21, Len(s)), FirstIn(SubSeq(s, 21, Len(s)), {":"})), 0)
             * 60 * 60)

\* the datetime branch, s being str(value).strip()
datetime_coerced(s) ==
    IF DatetimeMatches(s)
    THEN DatetimeCall(Group(s, 1, 4), Group(s, 6, 7), Group(s, 9, 10),
                      Group(s, 12, 13), Group(s, 15, 16), Group(s, 18, 19), 0, PyNone)
    ELSE IF DatetimeTimezoneMatches(s)
    THEN DatetimeCall(Group(s, 1, 4), Group(s, 6, 7), Group(s, 9, 10),
                      Group(s, 12, 13), Group(s, 15, 16), Group(s, 18, 19), 0, second_offset(s))
    ELSE IF DatetimeMicrosecondMatches(s)
    THEN DatetimeCall(Group(s, 1, 4), Group(s, 6, 7), Group(s, 9, 10),
                      Group(s, 12, 13), Group(s, 15, 16), Group(s, 18, 19),
                      Group(s, 21, Len(s)), PyNone)
    ELSE [exc |-> "none", val |-> PyNone]

\* the path branch: '/' in value or value == '.'
path_coerced(value) ==
    IF value.t # "str" THEN [exc |-> "TypeError", val |-> PyNone]
    ELSE IF IsSubstr(<<"/">>, value.s) \/ value.s = <<".">>
    THEN [exc |-> "none", val |-> value]
    ELSE [exc |-> "none", val |-> PyNone]

\* the files and directories of the file system, and its open file descriptors that
\* are files or directories
ExistingPaths == {<<"/","t","m","p">>, <<".">>}
ExistingDescriptors == {1}

\* the path exists branch: os.path.isfile(value) or os.path.isdir(value)
path_exists_coerced(value) ==
    CASE value.t = "str" ->
            [exc |-> "none", val |-> IF value.s \in ExistingPaths THEN value ELSE PyNone]
      [] IsInstanceInt(value) ->
            [exc |-> "none",
             val |-> IF IntCall(value).val.n \in ExistingDescriptors THEN value ELSE PyNone]
      [] OTHER -> [exc |-> "TypeError", val |-> PyNone]

\* the coerced_value assert_value_dtype computes (None when it cannot coerce), and
\* the exception raised while computing it
coerced_value(value, dtype, stop) ==
    CASE dtype = "bool" ->
            IF value.t = "bool" THEN [exc |-> "none", val |-> value]
            ELSE [exc |-> "none", val |-> BoolWord(Lower(Str(value)))]
      [] dtype \in {"str", "string"} ->
            [exc |-> "none", val |-> PyStr(Str(value))]
      [] dtype \in {"int", "integer"} ->
            IF IsInstanceInt(value) THEN [exc |-> "none", val |-> value]
            ELSE IF IsDigitStr(Str(value)) THEN IntCall(value)
            ELSE TryConvert(IntCall(value), stop)
      [] dtype = "float" ->
            IF value.t = "float" \/ IsInstanceInt(value) THEN FloatCall(value)
            ELSE IF IsSubstr(<<".">>, Str(value)) THEN TryConvert(FloatCall(value), stop)
            ELSE [exc |-> "none", val |-> PyNone]
      [] dtype = "date" -> date_coerced(Strip(Str(value)))
      [] dtype = "datetime" -> datetime_coerced(Strip(Str(value)))
      [] dtype = "path" -> path_coerced(value)
      [] dtype = "path exists" -> path_exists_coerced(value)

\* the close of assert_value_dtype: what it returns or raises for coerced value c
close_function(c, return_coerced_value) ==
    IF c.exc # "none" THEN [exc |-> c.exc, ret |-> PyNone]
    ELSE IF c.val = PyNone
         THEN IF return_coerced_value THEN [exc |-> "ValueError", ret |-> PyNone]
              ELSE [exc |-> "none", ret |-> PyBool(FALSE)]
         ELSE IF return_coerced_value THEN [exc |-> "none", ret |-> c.val]
              ELSE [exc |-> "none", ret |-> PyBool(TRUE)]

\* assert_value_dtype(value, dtype, return_coerced_value, stop): the exception raised
\* ("none" when it returns) and the value returned
assert_value_dtype(value, dtype, return_coerced_value, stop) ==
    IF dtype \notin valid_dtypes THEN [exc |-> "AssertionError", ret |-> PyNone]
    ELSE close_function(coerced_value(value, dtype, stop), return_coerced_value)

\* the truth of assert_value_dtype(value, dtype) with its default flags
IsDtype(value, dtype) == assert_value_dtype(value, dtype, FALSE, FALSE).ret.b

(***************************************************************************)
(* The catalog the connection reports: the rows of                         *)
(* information_schema.columns.                                             *)
(***************************************************************************)
ColRow(sch, tbl, col, dt, nullable) ==
    [table_schema |-> sch, table_name |-> tbl, column_name |-> col,
     data_type |-> dt, is_nullable |-> nullable]

\* the rows the database holds, is_nullable as Postgres reports it
InfoSchemaColumns == <<
    ColRow(<<"s">>, <<"t">>, <<"a">>, <<"i","n","t","e","g","e","r">>, "YES"),
    ColRow(<<"s">>, <<"t">>, <<"b">>, <<"t","e","x","t">>, "NO"),
    ColRow(<<"s">>, <<"t">>, <<"c">>, <<"b","o","o","l","e","a","n">>, "NO"),
    ColRow(<<"s">>, <<"t">>, <<"d">>, <<"d","o","u","b","l","e"," ","p","r","e","c","i","s","i","o","n">>, "YES"),
    ColRow(<<"s">>, <<"t">>, <<"e">>, <<"c","h","a","r","a","c","t","e","r"," ","v","a","r","y","i","n","g","(","2","5","5",")">>, "YES"),
    ColRow(<<"s">>, <<"t">>, <<"f">>, <<"b","y","t","e","a">>, "YES"),
    ColRow(<<"s">>, <<"t">>, <<"g">>, <<"b","y","t","e","a">>, "NO"),
    ColRow(<<"s">>, <<"t">>, <<"h">>, <<"d","a","t","e">>, "YES"),
    ColRow(<<"s">>, <<"t">>, <<"i">>, <<"s","e","r","i","a","l">>, "NO"),
    ColRow(<<"s">>, <<"t">>, <<"j">>, <<"c","h","a","r","a","c","t","e","r"," ","v","a","r","y","i","n","g">>, "YES"),
    ColRow(<<"s">>, <<"t">>, <<"k">>, <<"b","o","o","l">>, "YES"),
    ColRow(<<"s">>, <<"t">>, <<"l">>, <<"n","u","m","e","r","i","c">>, "NO"),
    ColRow(<<"p","g","_","c","a","t","a","l","o","g">>, <<"p","g","_","t">>, <<"a">>, <<"b","i","g","i","n","t">>, "NO"),
    ColRow(<<"s">>, <<"p","g","_","t">>, <<"a">>, <<"t","e","x","t">>, "YES") >>

\* infoschema('columns'): is_nullable mapped by dict(YES=True, NO=False)
infoschema ==
    [i \in 1..Len(InfoSchemaColumns) |->
        [InfoSchemaColumns[i] EXCEPT !.is_nullable = (@ = "YES")]]

\* is the str value v equal to text s (v may be None)
PyEq(v, s) == v.t = "str" /\ v.s = s

(***************************************************************************)
(* Postgres                                                                *)
(***************************************************************************)
\* self.null_equivalents without 'n/a'
null_equivalents_short ==
    LET base == <<<<"n","a","n">>, <<"n","u","l","l">>, <<"n","o","n","e">>, <<>>>>
    IN  {base[i] : i \in 1..Len(base)} \cup {Upper(base[i]) : i \in 1..Len(base)}

\* self.null_equivalents
null_equivalents ==
    LET base == <<<<"n","a","n">>, <<"n","/","a">>, <<"n","u","l","l">>, <<"n","o","n","e">>, <<>>>>
    IN  {base[i] : i \in 1..Len(base)} \cup {Upper(base[i]) : i \in 1..Len(base)}

\* get_table_name joining with '.' also when schema_name is None
get_table_name_dotted(schema_name, table_name) ==
    IF table_name.t = "NoneType" THEN [exc |-> "AssertionError", ret |-> PyNone]
    ELSE [exc |-> "none", ret |-> PyStr(schema_name.s \o <<".">> \o table_name.s)]

\* get_table_name(schema_name, table_name)
get_table_name(schema_name, table_name) ==
    IF table_name.t = "NoneType" THEN [exc |-> "AssertionError", ret |-> PyNone]
    ELSE IF schema_name.t = "NoneType" THEN [exc |-> "none", ret |-> table_name]
    ELSE [exc |-> "none", ret |-> PyStr(schema_name.s \o <<".">> \o table_name.s)]

\* col_dtypes(schema_name, table_name): the data_type of each column of the table
col_dtypes(schema_name, table_name) ==
    SelectSeq(infoschema,
              LAMBDA r : PyEq(schema_name, r.table_schema) /\ PyEq(table_name, r.table_name))

dtype_map == <<
    <<<<"b","i","g","i","n","t">>, "int">>,
    <<<<"i","n","t","8">>, "int">>,
    <<<<"b","i","g","s","e","r","i","a","l">>, "int">>,
    <<<<"s","e","r","i","a","l","8">>, "int">>,
    <<<<"i","n","t","e","g","e","r">>, "int">>,
    <<<<"i","n","t">>, "int">>,
    <<<<"i","n","t","4">>, "int">>,
    <<<<"s","m","a","l","l","i","n","t">>, "int">>,
    <<<<"i","n","t","2">>, "int">>,
    <<<<"d","o","u","b","l","e"," ","p","r","e","c","i","s","i","o","n">>, "float">>,
    <<<<"f","l","o","a","t">>, "float">>,
    <<<<"f","l","o","a","t","4">>, "float">>,
    <<<<"f","l","o","a","t","8">>, "float">>,
    <<<<"n","u","m","e","r","i","c">>, "float">>,
    <<<<"d","e","c","i","m","a","l">>, "float">>,
    <<<<"c","h","a","r","a","c","t","e","r">>, "str">>,
    <<<<"c","h","a","r">>, "str">>,
    <<<<"c","h","a","r","a","c","t","e","r"," ","v","a","r","y","i","n","g">>, "str">>,
    <<<<"v","a","r","c","h","a","r">>, "str">>,
    <<<<"t","e","x","t">>, "str">>,
    <<<<"d","a","t","e">>, "str">>,
    <<<<"t","i","m","e","s","t","a","m","p">>, "str">>,
    <<<<"t","i","m","e","s","t","a","m","p"," ","w","i","t","h"," ","t","i","m","e"," ","z","o","n","e">>, "str">>,
    <<<<"t","i","m","e","s","t","a","m","p"," ","w","i","t","h","o","u","t"," ","t","i","m","e"," ","z","o","n","e">>, "str">>,
    <<<<"n","a","m","e">>, "str">>,
    <<<<"b","o","o","l","e","a","n">>, "bool">>,
    <<<<"b","o","o","l">>, "bool">> >>

\* the match turned round: [v for k, v in dtype_map.items() if k in dtype]
python_dtypes_key_in_dtype(dtype) == SelectSeq(dtype_map, LAMBDA e : IsSubstr(e[1], dtype))

\* the first entry of the map taken instead of the first match
python_dtypes_first_of_map(dtype) ==
    IF SelectSeq(dtype_map, LAMBDA e : IsSubstr(dtype, e[1])) = <<>> THEN <<>>
    ELSE <<dtype_map[1]>>

\* [v for k, v in dtype_map.items() if dtype in k]
python_dtypes(dtype) == SelectSeq(dtype_map, LAMBDA e : IsSubstr(dtype, e[1]))

\* the rules without the acceptance of native bool and int values
dtype_rules_no_native(python_dtype, dtype, val) ==
    CASE val.t \in {"date", "datetime"} ->
            IsSubstr(<<"d","a","t","e">>, dtype) \/ IsSubstr(<<"t","i","m","e","s","t","a","m","p">>, dtype)
      [] python_dtype = "bool" ->
            val.t = "str" /\ Lower(val.s) \in {<<"t">>, <<"t","r","u","e">>, <<"f">>, <<"f","a","l","s","e">>}
      [] python_dtype = "int" -> val.t = "str" /\ IntParses(val.s)
      [] python_dtype = "float" -> val.t = "float" \/ FloatCall(val).exc = "none"
      [] python_dtype = "str" -> val.t = "str"
      [] OTHER -> TRUE

\* the rules with the int bucket accepting every str
dtype_rules_any_str(python_dtype, dtype, val) ==
    CASE val.t \in {"date", "datetime"} ->
            IsSubstr(<<"d","a","t","e">>, dtype) \/ IsSubstr(<<"t","i","m","e","s","t","a","m","p">>, dtype)
      [] python_dtype = "bool" ->
            \/ val.t = "bool"
            \/ val.t = "str" /\ Lower(val.s) \in {<<"t">>, <<"t","r","u","e">>, <<"f">>, <<"f","a","l","s","e">>}
      [] python_dtype = "int" -> IsInstanceInt(val) \/ val.t = "str"
      [] python_dtype = "float" -> val.t = "float" \/ FloatCall(val).exc = "none"
      [] python_dtype = "str" -> val.t = "str"
      [] OTHER -> TRUE

\* the rules with the str bucket falling into the permissive default
dtype_rules_str_permissive(python_dtype, dtype, val) ==
    CASE val.t \in {"date", "datetime"} ->
            IsSubstr(<<"d","a","t","e">>, dtype) \/ IsSubstr(<<"t","i","m","e","s","t","a","m","p">>, dtype)
      [] python_dtype = "bool" ->
            \/ val.t = "bool"
            \/ val.t = "str" /\ Lower(val.s) \in {<<"t">>, <<"t","r","u","e">>, <<"f">>, <<"f","a","l","s","e">>}
      [] python_dtype = "int" -> IsInstanceInt(val) \/ (val.t = "str" /\ IntParses(val.s))
      [] python_dtype = "float" -> val.t = "float" \/ FloatCall(val).exc = "none"
      [] OTHER -> TRUE

\* the bucket-specific rules of validate_dtype, for a value that is not NULL
dtype_rules(python_dtype, dtype, val) ==
    CASE val.t \in {"date", "datetime"} ->
            IsSubstr(<<"d","a","t","e">>, dtype) \/ IsSubstr(<<"t","i","m","e","s","t","a","m","p">>, dtype)
      [] python_dtype = "bool" ->
            \/ val.t = "bool"
            \/ val.t = "str" /\ Lower(val.s) \in {<<"t">>, <<"t","r","u","e">>, <<"f">>, <<"f","a","l","s","e">>}
      [] python_dtype = "int" ->
            \/ IsInstanceInt(val)
            \/ val.t = "str" /\ IntParses(val.s)
      [] python_dtype = "float" ->
            \/ val.t = "float"
            \/ FloatCall(val).exc = "none"
      [] python_dtype = "str" -> val.t = "str"
      [] OTHER -> TRUE

\* the rows of the catalog for one column
column_rows(schema_name, table_name, col) ==
    SelectSeq(infoschema,
              LAMBDA r : /\ PyEq(schema_name, r.table_schema)
                         /\ PyEq(table_name, r.table_name)
                         /\ PyEq(col, r.column_name))

\* the bucket check returning True when no key matches
validate_bucket_open(buckets, dtype, val) ==
    IF buckets = <<>> THEN [exc |-> "none", ret |-> TRUE]
    ELSE [exc |-> "none", ret |-> dtype_rules(buckets[1][2], dtype, val)]

\* the bucket check of validate_dtype for reported datatype dtype
validate_bucket(buckets, dtype, val) ==
    IF buckets = <<>> THEN [exc |-> "none", ret |-> FALSE]
    ELSE [exc |-> "none", ret |-> dtype_rules(buckets[1][2], dtype, val)]

\* dtypes[col], dtypes the dictionary col_dtypes returns
dtype_of(dtypes, col) ==
    dtypes[CHOOSE i \in 1..Len(dtypes) :
              /\ PyEq(col, dtypes[i].column_name)
              /\ \A j \in (i + 1)..Len(dtypes) : ~PyEq(col, dtypes[j].column_name)].data_type

\* validate_dtype accepting NULL whatever is_nullable says
validate_row_null_accepted(rows, dtypes, col, val) ==
    IF rows = <<>> THEN [exc |-> "AssertionError", ret |-> FALSE]
    ELSE IF PyEq(val, <<"N","U","L","L">>) \/ val.t = "NoneType"
    THEN [exc |-> "none", ret |-> TRUE]
    ELSE validate_bucket(python_dtypes(dtype_of(dtypes, col)), dtype_of(dtypes, col), val)

\* validate_dtype judging NULL before it asserts that the column exists
validate_row_null_before_lookup(rows, dtypes, col, val) ==
    IF PyEq(val, <<"N","U","L","L">>) \/ val.t = "NoneType"
    THEN [exc |-> "none", ret |-> rows # <<>> /\ rows[1].is_nullable]
    ELSE IF rows = <<>> THEN [exc |-> "AssertionError", ret |-> FALSE]
    ELSE validate_bucket(python_dtypes(dtype_of(dtypes, col)), dtype_of(dtypes, col), val)

\* validate_dtype once the catalog is read: rows are the rows matching the column,
\* dtypes the table's datatypes
validate_row(rows, dtypes, col, val) ==
    IF rows = <<>> THEN [exc |-> "AssertionError", ret |-> FALSE]
    ELSE IF PyEq(val, <<"N","U","L","L">>) \/ val.t = "NoneType"
    THEN [exc |-> "none", ret |-> rows[1].is_nullable]
    ELSE validate_bucket(python_dtypes(dtype_of(dtypes, col)), dtype_of(dtypes, col), val)

\* validate_dtype looking the column up under the schema the caller passed
validate_dtype_schema_kept(schema_name, table_name, col, val) ==
    IF table_name.t # "str" THEN [exc |-> "AttributeError", ret |-> FALSE]
    ELSE validate_row(column_rows(schema_name, table_name, col),
                      col_dtypes(schema_name, table_name), col, val)

\* validate_dtype(schema_name, table_name, col, val): the exception raised ("none"
\* when it returns) and the boolean returned
validate_dtype(schema_name, table_name, col, val) ==
    IF table_name.t # "str" THEN [exc |-> "AttributeError", ret |-> FALSE]
    ELSE validate_row(
            column_rows(IF StartsWith(table_name.s, <<"p","g","_">>)
                        THEN PyStr(<<"p","g","_","c","a","t","a","l","o","g">>)
                        ELSE schema_name,
                        table_name, col),
            col_dtypes(IF StartsWith(table_name.s, <<"p","g","_">>)
                       THEN PyStr(<<"p","g","_","c","a","t","a","l","o","g">>)
                       ELSE schema_name,
                       table_name),
            col, val)

\* _single_quote escaping an embedded quote with a backslash instead of doubling it
_single_quote_backslash(val) ==
    IF val.t \notin {"bool", "int", "float"}
    THEN PyStr(<<"'">> \o Replace(Str(val), <<"'">>, <<"\\", "'">>) \o <<"'">>)
    ELSE val

\* _single_quote without doubling embedded quotes
_single_quote_undoubled(val) ==
    IF val.t \notin {"bool", "int", "float"}
    THEN PyStr(<<"'">> \o Str(val) \o <<"'">>)
    ELSE val

\* _single_quote(val)
_single_quote(val) ==
    IF val.t \notin {"bool", "int", "float"}
    THEN PyStr(<<"'">> \o Replace(Str(val), <<"'">>, <<"'", "'">>) \o <<"'">>)
    ELSE val

(***************************************************************************)
(* str.format.  A template is a text in which a replacement field is one   *)
(* element: "{}" for a positional field, "{name}" for a named one.         *)
(***************************************************************************)
RECURSIVE FormatPos(_, _)
\* template.format(*fields): the k-th "{}" is replaced by str(fields[k])
FormatPos(template, fields) ==
    IF template = <<>> THEN <<>>
    ELSE IF Head(template) = "{}"
         THEN Str(Head(fields)) \o FormatPos(Tail(template), Tail(fields))
         ELSE <<Head(template)>> \o FormatPos(Tail(template), fields)

RECURSIVE FormatNamed(_, _)
\* template.format(**fields): "{name}" is replaced by str(fields[name])
FormatNamed(template, fields) ==
    IF template = <<>> THEN <<>>
    ELSE IF Head(template) \in DOMAIN fields
         THEN Str(fields[Head(template)]) \o FormatNamed(Tail(template), fields)
         ELSE <<Head(template)>> \o FormatNamed(Tail(template), fields)

(***************************************************************************)
(* The statement builders.  A builder's outcome: exc is the exception it   *)
(* raises ("none" when it returns), ret the text it returns, nvalidated    *)
(* the number of validate_dtype calls it made and nrendered the number of  *)
(* values it rendered.                                                     *)
(***************************************************************************)
Outcome(exc, ret, nvalidated, nrendered) ==
    [exc |-> exc, ret |-> ret, nvalidated |-> nvalidated, nrendered |-> nrendered]

\* the guard 'len(columns) != len(values)' left out
length_mismatch_unchecked(columns, values) == FALSE

\* len(columns) != len(values), both already lists
length_mismatch(columns, values) == Len(columns.items) # Len(values.items)

\* the value build_update puts after '=': NULL for a null equivalent, the value
\* itself when it coerces to bool, int or float, the quoted text otherwise
update_value(val) ==
    IF Lower(Str(val)) \in null_equivalents THEN PyStr(<<"N","U","L","L">>)
    ELSE IF IsDtype(val, "bool") \/ IsDtype(val, "int") \/ IsDtype(val, "float") THEN val
    ELSE _single_quote(val)

\* an element of lst indented by two spaces instead of four
update_entry_two_spaces(col, val, newlines) ==
    (IF newlines THEN <<"\n"," "," ">> ELSE <<>>)
        \o <<"\"">> \o Str(col) \o <<"\"", "=">> \o Str(val)

\* one element of lst in build_update
update_entry(col, val, newlines) ==
    (IF newlines THEN <<"\n"," "," "," "," ">> ELSE <<>>)
        \o <<"\"">> \o Str(col) \o <<"\"", "=">> \o Str(val)

\* the outcome of the loop over zip(columns, values): the exception raised in it
\* ("none" when it completes), the entries built, and the validate_dtype calls made
LoopOutcome(exc, lst, nvalidated) == [exc |-> exc, lst |-> lst, nvalidated |-> nvalidated]

\* the validation of one pair with the result of validate_dtype never tested
pair_check_untested(validate, test) ==
    IF ~validate THEN "none"
    ELSE IF test.exc # "none" THEN test.exc
    ELSE "none"

\* the validation of one pair: the exception the builder raises on it, "none" if it passes
pair_check(validate, test) ==
    IF ~validate THEN "none"
    ELSE IF test.exc # "none" THEN test.exc
    ELSE IF ~test.ret THEN "Exception"
    ELSE "none"

\* the count of validate_dtype calls after one more pair
Validated(validate, nvalidated) == IF validate THEN nvalidated + 1 ELSE nvalidated

RECURSIVE update_loop(_, _, _, _, _, _)
RECURSIVE update_pair(_, _, _, _, _, _, _)
\* the loop over zip(columns, values) of build_update from pair i on
update_loop(a, columns, values, i, nvalidated, lst) ==
    IF i > Len(columns) \/ i > Len(values)
    THEN LoopOutcome("none", lst, nvalidated)
    ELSE update_pair(a, columns, values, i, nvalidated, lst,
                     pair_check(a.validate,
                                validate_dtype(a.schema_name, a.table_name, columns[i], values[i])))

\* one pass of the loop of build_update, check being the outcome of its validation
update_pair(a, columns, values, i, nvalidated, lst, check) ==
    IF check # "none"
    THEN LoopOutcome(check, lst, nvalidated + 1)
    ELSE update_loop(a, columns, values, i + 1, Validated(a.validate, nvalidated),
                     Append(lst, update_entry(columns[i], update_value(values[i]), a.newlines)))

\* the parts of the UPDATE template with no spaces around the '=' of WHERE
update_sql_tight == << <<"U","P","D","A","T","E"," ">> \o <<"{}">>,
                      <<"S","E","T"," ">> \o <<"{}">>,
                      <<"W","H","E","R","E"," ">> \o <<"{}">> \o <<"=">> \o <<"{}">> >>

\* sql of build_update: the parts of the UPDATE template
update_sql == << <<"U","P","D","A","T","E"," ">> \o <<"{}">>,
                <<"S","E","T"," ">> \o <<"{}">>,
                <<"W","H","E","R","E"," ">> \o <<"{}">> \o <<" ", "=", " ">> \o <<"{}">> >>

\* lst[0] = lst[0].strip()
strip_first(lst) == [lst EXCEPT ![1] = Strip(lst[1])]

\* the text build_update returns
update_text(a, lst, table_schema_and_name, pkey_value) ==
    FormatPos(Join(IF a.newlines THEN <<"\n">> ELSE <<" ">>, update_sql),
              << table_schema_and_name,
                 PyStr(Join(<<",", " ">>, IF a.newlines THEN strip_first(lst) ELSE lst)),
                 PyStr(<<"\"">> \o a.pkey_name.s \o <<"\"">>),
                 pkey_value >>)

\* build_update after its loop
update_finish(a, loop, table_schema_and_name) ==
    IF loop.exc # "none"
    THEN Outcome(loop.exc, PyNone, loop.nvalidated, Len(loop.lst))
    ELSE IF a.newlines /\ loop.lst = <<>>
    THEN Outcome("IndexError", PyNone, loop.nvalidated, Len(loop.lst))
    ELSE IF table_schema_and_name.exc # "none"
    THEN Outcome(table_schema_and_name.exc, PyNone, loop.nvalidated, Len(loop.lst))
    ELSE Outcome("none",
                 PyStr(update_text(a, loop.lst, table_schema_and_name.ret,
                                   _single_quote(a.pkey_value))),
                 loop.nvalidated, Len(loop.lst))

\* build_update(schema_name, table_name, pkey_name, pkey_value, columns, values,
\*              validate, newlines)
build_update(a) ==
    IF length_mismatch(ensurelist(a.columns), ensurelist(a.values))
    THEN Outcome("Exception", PyNone, 0, 0)
    ELSE update_finish(a,
                       update_loop(a, ensurelist(a.columns).items, ensurelist(a.values).items,
                                   1, 0, <<>>),
                       get_table_name(a.schema_name, a.table_name))

\* the value build_insert appends to lst: null for a null equivalent, the value
\* itself when it coerces to bool, int or float, the quoted text otherwise
insert_value(val) ==
    IF Lower(Str(val)) \in null_equivalents THEN PyStr(<<"n","u","l","l">>)
    ELSE IF IsDtype(val, "bool") \/ IsDtype(val, "int") \/ IsDtype(val, "float") THEN val
    ELSE _single_quote(val)

RECURSIVE insert_loop(_, _, _, _, _, _)
RECURSIVE insert_pair(_, _, _, _, _, _, _)
\* the loop over zip(columns, values) of build_insert from pair i on
insert_loop(a, columns, values, i, nvalidated, lst) ==
    IF i > Len(columns) \/ i > Len(values)
    THEN LoopOutcome("none", lst, nvalidated)
    ELSE insert_pair(a, columns, values, i, nvalidated, lst,
                     pair_check(a.validate,
                                validate_dtype(a.schema_name, a.table_name, columns[i], values[i])))

\* one pass of the loop of build_insert, check being the outcome of its validation
insert_pair(a, columns, values, i, nvalidated, lst, check) ==
    IF check # "none"
    THEN LoopOutcome(check, lst, nvalidated + 1)
    ELSE insert_loop(a, columns, values, i + 1, Validated(a.validate, nvalidated),
                     Append(lst, insert_value(values[i])))

\* values_final of build_insert: the values joined, then 'null' unquoted
insert_values_final(lst) ==
    Replace(Join(<<",", " ">>, [i \in 1..Len(lst) |-> Str(lst[i])]),
            <<"'","n","u","l","l","'">>, <<"n","u","l","l">>)

\* the column list of build_insert: each name in double quotes
insert_columns(columns) ==
    Join(<<",", " ">>, [i \in 1..Len(columns) |-> <<"\"">> \o columns[i].s \o <<"\"">>])

insert_sql == << <<"i","n","s","e","r","t"," ","i","n","t","o"," ">> \o <<"{table_schema_and_name}">> \o <<" ", "(">>
                    \o <<"{columns}">> \o <<")">>,
                <<"v","a","l","u","e","s"," ","(">> \o <<"{values_final}">> \o <<")">> >>

\* the text build_insert returns
insert_text(a, columns, lst, table_schema_and_name) ==
    FormatNamed(Join(IF a.newlines THEN <<"\n">> ELSE <<" ">>, insert_sql),
                [x \in {"{table_schema_and_name}", "{columns}", "{values_final}"} |->
                    CASE x = "{table_schema_and_name}" -> table_schema_and_name
                      [] x = "{columns}" -> PyStr(insert_columns(columns))
                      [] x = "{values_final}" -> PyStr(insert_values_final(lst))])

\* build_insert after its loop
insert_finish(a, columns, loop, table_schema_and_name) ==
    IF loop.exc # "none"
    THEN Outcome(loop.exc, PyNone, loop.nvalidated, Len(loop.lst))
    ELSE IF \E i \in 1..Len(columns) : columns[i].t # "str"
    THEN Outcome("TypeError", PyNone, loop.nvalidated, Len(loop.lst))
    ELSE IF table_schema_and_name.exc # "none"
    THEN Outcome(table_schema_and_name.exc, PyNone, loop.nvalidated, Len(loop.lst))
    ELSE Outcome("none",
                 PyStr(insert_text(a, columns, loop.lst, table_schema_and_name.ret)),
                 loop.nvalidated, Len(loop.lst))

\* build_insert(schema_name, table_name, columns, values, validate, newlines)
build_insert(a) ==
    IF length_mismatch(ensurelist(a.columns), ensurelist(a.values))
    THEN Outcome("Exception", PyNone, 0, 0)
    ELSE insert_finish(a, ensurelist(a.columns).items,
                       insert_loop(a, ensurelist(a.columns).items, ensurelist(a.values).items,
                                   1, 0, <<>>),
                       get_table_name(a.schema_name, a.table_name))

delete_sql_in == << <<"d","e","l","e","t","e"," ","f","r","o","m"," ">> \o <<"{}">>,
                   <<"w","h","e","r","e"," ">> \o <<"{}">> \o <<" ","i","n"," ","(">> \o <<"{}">> \o <<")">> >>

delete_sql_eq == << <<"d","e","l","e","t","e"," ","f","r","o","m"," ">> \o <<"{}">>,
                   <<"w","h","e","r","e"," ">> \o <<"{}">> \o <<" ","="," ">> \o <<"{}">> >>

\* pkey_value_str quoting the joined list as one literal
delete_pkey_value_str_joined(pkey_value) ==
    IF pkey_value.t = "list"
    THEN _single_quote(PyStr(Join(<<",", " ">>,
                    [i \in 1..Len(pkey_value.items) |-> Str(pkey_value.items[i])])))
    ELSE _single_quote(pkey_value)

\* pkey_value_str of build_delete
delete_pkey_value_str(pkey_value) ==
    IF pkey_value.t = "list"
    THEN PyStr(Join(<<",", " ">>,
                    [i \in 1..Len(pkey_value.items) |-> Str(_single_quote(pkey_value.items[i]))]))
    ELSE _single_quote(pkey_value)

\* the text build_delete returns
delete_text(a, table_schema_and_name) ==
    FormatPos(Join(IF a.newlines THEN <<"\n">> ELSE <<" ">>,
                   IF a.pkey_value.t = "list" THEN delete_sql_in ELSE delete_sql_eq),
              <<table_schema_and_name, a.pkey_name, delete_pkey_value_str(a.pkey_value)>>)

\* build_delete after get_table_name
delete_finish(a, table_schema_and_name) ==
    IF table_schema_and_name.exc # "none"
    THEN Outcome(table_schema_and_name.exc, PyNone, 0, 0)
    ELSE Outcome("none", PyStr(delete_text(a, table_schema_and_name.ret)), 0,
                 IF a.pkey_value.t = "list" THEN Len(a.pkey_value.items) ELSE 1)

\* build_delete(schema_name, table_name, pkey_name, pkey_value, newlines)
build_delete(a) == delete_finish(a, get_table_name(a.schema_name, a.table_name))

(***************************************************************************)
(* execute.  The database is the sequence of statements whose effect is    *)
(* committed.  self.dbcon.begin() opens a transaction that is committed    *)
(* when the with block completes and rolled back when an exception leaves  *)
(* it; the log file keeps every line appended to it.                       *)
(***************************************************************************)
\* the statements con.execute raises on
FailingStatements ==
    {<<"x">>,
     <<"d","r","o","p"," ","s","c","h","e","m","a"," ","g","o","n","e">>,
     <<"d","r","o","p"," ","s","c","h","e","m","a"," ","g","o","n","e"," ","c","a","s","c","a","d","e">>,
     <<"d","r","o","p"," ","s","c","h","e","m","a"," ","p","g","_","x">>,
     <<"d","r","o","p"," ","s","c","h","e","m","a"," ","p","g","_","x"," ","c","a","s","c","a","d","e">>,
     <<"c","r","e","a","t","e"," ","s","c","h","e","m","a"," ","p","g","_","x">>}

\* the outcome of the for loop: the exception that left it ("none" when it completes),
\* the statements executed in the transaction, the con.execute calls made and the
\* lines appended to the log file
ExecLoop(exc, tx, executed, logged) ==
    [exc |-> exc, tx |-> tx, executed |-> executed, logged |-> logged]

RECURSIVE execute_loop(_, _, _, _, _)
\* for stmt in sql, from statement i on
execute_loop(sql, write_log, i, tx, logged) ==
    IF i > Len(sql) THEN ExecLoop("none", tx, i - 1, logged)
    ELSE IF sql[i].s \in FailingStatements THEN ExecLoop("DatabaseError", tx, i, logged)
    ELSE execute_loop(sql, write_log, i + 1, Append(tx, sql[i].s),
                      IF write_log THEN Append(logged, sql[i].s) ELSE logged)

\* a connection that commits each statement as it is executed
transaction_exit_autocommit(db, loop) == db \o loop.tx

\* the exit of 'with self.dbcon.begin() as con': the database after it
transaction_exit(db, loop) == IF loop.exc = "none" THEN db \o loop.tx ELSE db

\* the outcome of execute: the exception raised, the database and the log after it
ExecOutcome(loop, committed) ==
    [exc |-> loop.exc, ret |-> PyNone, nvalidated |-> 0, nrendered |-> 0,
     committed |-> committed, executed |-> loop.executed, logged |-> loop.logged]

\* execute with a log that is rolled back together with the transaction
execute_finish_log_rolled_back(a, loop) ==
    ExecOutcome([loop EXCEPT !.logged = IF loop.exc = "none" THEN @ ELSE <<>>],
                transaction_exit(a.db, loop))

\* execute once the loop has run
execute_finish(a, loop) == ExecOutcome(loop, transaction_exit(a.db, loop))

\* execute(sql, logfile, progress) on database a.db
execute(a) ==
    execute_finish(a, execute_loop(ensurelist(a.sql).items, a.logfile.t # "NoneType", 1, <<>>, <<>>))

(***************************************************************************)
(* Schemas.  Each of create_schema and drop_schema makes one execute call  *)
(* of one statement, so each runs in a transaction of its own.             *)
(***************************************************************************)
\* the statement of drop_schema(schema_name, if_exists, cascade)
drop_schema_sql(schema_name, if_exists, cascade) ==
    <<"d","r","o","p"," ","s","c","h","e","m","a"," ">>
        \o (IF if_exists THEN <<"i","f"," ","e","x","i","s","t","s"," ">> ELSE <<>>)
        \o Str(schema_name)
        \o (IF cascade THEN <<" ","c","a","s","c","a","d","e">> ELSE <<>>)

\* the statement of create_schema(schema_name)
create_schema_sql(schema_name) ==
    <<"c","r","e","a","t","e"," ","s","c","h","e","m","a"," ">> \o Str(schema_name)

\* self.execute(stmt) on database db: no logfile, no progress bar
execute_one(stmt, db) ==
    [sql |-> PyStr(stmt), logfile |-> PyNone, progress |-> FALSE, db |-> db]

\* drop_schema(**args) of call a, on database db
drop_schema(a, db) ==
    execute(execute_one(drop_schema_sql(a.schema_name, a.if_exists, a.cascade), db))

\* create_schema in the transaction of the drop: its failure undoes the drop
create_schema_undoing_drop(a, db) ==
    execute(execute_one(create_schema_sql(a.schema_name),
                        IF create_schema_sql(a.schema_name) \in FailingStatements
                        THEN a.db ELSE db))

\* create_schema(schema_name) of call a, on database db
create_schema(a, db) ==
    execute(execute_one(create_schema_sql(a.schema_name), db))

\* the outcome of drop_schema_and_recreate so far: the outcome r of its last execute
\* call and the statements of the execute calls it has made
SchemaOutcome(r, calls) ==
    [exc |-> r.exc, ret |-> PyNone, nvalidated |-> 0, nrendered |-> 0,
     committed |-> r.committed, executed |-> r.executed, logged |-> r.logged,
     calls |-> calls]

(***************************************************************************)
(* The inputs the operations are called with.                              *)
(***************************************************************************)
SeqsUpTo(S, n) == UNION {[1..k -> S] : k \in 0..n}

\* texts whose case-folded form is a null equivalent
SentinelTexts == {<<>>, <<"n","a","n">>, <<"N","a","N">>, <<"n","/","a">>, <<"N","/","A">>, <<"n","u","l","l">>, <<"N","U","L","L">>, <<"n","o","n","e">>, <<"N","o","n","e">>}

\* texts that coerce to a number or a boolean
CoercibleTexts == {<<"5">>, <<"7",".","5">>, <<"t","r","u","e">>, <<"-","3">>, <<"y">>, <<"5"," ">>}

\* plain texts, with and without embedded single quotes
PlainTexts == {<<"a","b">>, <<"a","'","b">>, <<"x","'","n","u","l","l","'","y">>, <<"n","u","l">>}

NativeValues == {PyNone, PyInt(5), PyInt(0), PyInt(-3), PyBool(TRUE), PyBool(FALSE),
                 PyFloat(75, 1), PyFloat(-5, 1), PyFloatNaN, PyFloatInf}

\* the values a builder is given one at a time
Values == {PyStr(s) : s \in SentinelTexts \cup CoercibleTexts \cup PlainTexts} \cup NativeValues

\* the values of the lists of two and more elements
CoreValues == {PyInt(5), PyNone, PyStr(<<"a","b">>), PyStr(<<"a","'","b">>), PyStr(<<"5">>), PyStr(<<"N","a","N">>)}

ValueLists == {PyList(l) : l \in SeqsUpTo(Values, 1) \cup SeqsUpTo(CoreValues, MaxCols)}

ColNames == {PyStr(<<"a">>), PyStr(<<"b">>)}

ColumnLists == {PyList(l) : l \in SeqsUpTo(ColNames, MaxCols)}

PKeyValues == {PyInt(12345), PyBool(TRUE), PyStr(<<"o","'","k">>)}

SchemaNames == {PyNone, PyStr(<<"s">>)}

QuoteAlphabet == {"a", "'"}

QuoteTexts == {PyStr(s) : s \in SeqsUpTo(QuoteAlphabet, MaxStrLen)}

\* the column names validate_dtype is asked about: those of the catalog and one it lacks
CatalogColNames == {PyStr(InfoSchemaColumns[i].column_name) : i \in 1..Len(InfoSchemaColumns)}
                       \cup {PyStr(<<"z">>)}

BoolTexts == {PyStr(s) : s \in {<<"t">>, <<"T","R","U","E">>, <<"f">>, <<"F","a","l","s","e">>,
                                <<"5",".","0">>, <<"i","n","f">>, <<"1","e","5">>}}

DateValues == {PyDate(<<"2","0","1","9","-","0","2","-","0","8">>), PyDateTime(<<"2","0","1","9","-","0","2","-","0","8"," ","1","0",":","2","0",":","3","0">>, <<>>)}

\* the values validate_dtype is asked about
ValidateValues == Values \cup BoolTexts \cup DateValues

MaxBatch == 3

Statements == {PyStr(<<"a">>), PyStr(<<"b">>), PyStr(<<"x">>)}

\* sql: one statement or a list of statements
Batches == Statements \cup {PyList(l) : l \in SeqsUpTo(Statements, MaxBatch)}

LogFiles == {PyNone, PyStr(<<"l","o","g">>)}

\* the databases execute is called on
Databases == {<<>>, << <<"z">> >>}

ExecArgs(sql, logfile, progress, db) ==
    [sql |-> sql, logfile |-> logfile, progress |-> progress, db |-> db]

DateTexts == {
    PyStr(<<"2","0","1","9","-","0","2","-","0","8">>),
    PyStr(<<"2","0","1","9","-","0","2","-","3","0">>),
    PyStr(<<" ","2","0","1","9",":","0","2","/","0","8"," ">>),
    PyStr(<<"2","0","1","9","-","2","-","8">>),
    PyStr(<<"0","0","0","0","-","0","1","-","0","1">>),
    PyStr(<<"2","0","2","0","-","0","2","-","2","9">>),
    PyStr(<<"2","0","1","9","-","1","3","-","0","1">>),
    PyStr(<<"2","0","1","9","-","0","2","-","0","8"," ","1","0",":","2","0",":","3","0">>),
    PyStr(<<"2","0","1","9","-","0","2","-","0","8"," ","2","4",":","2","0",":","3","0">>),
    PyStr(<<"2","0","1","9","-","0","2","-","0","8"," ","1","0",":","2","0",":","3","0","+","0","5",":","3","0">>),
    PyStr(<<"2","0","1","9","-","0","2","-","0","8"," ","1","0",":","2","0",":","3","0","-","5",":","3">>),
    PyStr(<<"2","0","1","9","-","0","2","-","3","0"," ","1","0",":","2","0",":","3","0","+","0","5",":","3","0">>),
    PyStr(<<"2","0","1","9","-","0","2","-","0","8"," ","1","0",":","2","0",":","3","0",".","1","2","3">>),
    PyStr(<<"2","0","1","9","-","0","2","-","0","8"," ","1","0",":","2","0",":","3","0",".","1","2","3","4","5","6","7">>) }

PathTexts == {PyStr(<<"a","/","b">>), PyStr(<<".">>), PyStr(<<"/","t","m","p">>)}

\* the values assert_value_dtype is asked about
AssertValues == Values \cup BoolTexts \cup DateTexts \cup PathTexts

\* the dtype arguments: the valid ones and one that is not
AssertDtypes == valid_dtypes \cup {"decimal"}

AssertArgs(value, dtype, return_coerced_value, stop) ==
    [value |-> value, dtype |-> dtype, return_coerced_value |-> return_coerced_value,
     stop |-> stop]

\* the schemas dropped and re-created: one that exists, one that does not, and one
\* that does not exist and whose name Postgres reserves
RecreatedSchemas == {PyStr(<<"s">>), PyStr(<<"g","o","n","e">>), PyStr(<<"p","g","_","x">>)}

SchemaArgs(schema_name, if_exists, cascade, db) ==
    [schema_name |-> schema_name, if_exists |-> if_exists, cascade |-> cascade, db |-> db]

TableNames == {PyNone, PyStr(<<"t">>), PyStr(<<"p","g","_","t">>)}

Ops == {"_single_quote", "build_update", "build_insert", "build_delete", "get_table_name",
        "validate_dtype", "execute", "assert_value_dtype", "drop_schema_and_recreate"}

Args(schema_name, table_name, pkey_name, pkey_value, columns, values, validate, newlines, val) ==
    [schema_name |-> schema_name, table_name |-> table_name, pkey_name |-> pkey_name,
     pkey_value |-> pkey_value, columns |-> columns, values |-> values,
     validate |-> validate, newlines |-> newlines, val |-> val]

ArgsOf(o) ==
    CASE o = "_single_quote" ->
            {Args(PyNone, PyNone, PyNone, PyNone, PyNone, PyNone, FALSE, FALSE, v) :
                v \in Values \cup QuoteTexts}
      [] o = "build_update" ->
            {Args(x[1], PyStr(<<"t">>), PyStr(<<"i","d">>), x[2], x[3], x[4], x[5], x[6], PyNone) :
                x \in SchemaNames \X PKeyValues \X (ColNames \cup ColumnLists)
                      \X (Values \cup ValueLists) \X BOOLEAN \X BOOLEAN}
      [] o = "build_insert" ->
            {Args(x[1], PyStr(<<"t">>), PyNone, PyNone, x[2], x[3], x[4], x[5], PyNone) :
                x \in SchemaNames \X (ColNames \cup ColumnLists)
                      \X (Values \cup ValueLists) \X BOOLEAN \X BOOLEAN}
      [] o = "build_delete" ->
            {Args(x[1], PyStr(<<"t">>), PyStr(<<"i","d">>), x[2], PyNone, PyNone, FALSE, x[3], PyNone) :
                x \in SchemaNames \X (Values \cup ValueLists) \X BOOLEAN}
      [] o = "get_table_name" ->
            {Args(x[1], x[2], PyNone, PyNone, PyNone, PyNone, FALSE, FALSE, PyNone) :
                x \in SchemaNames \X TableNames}
      [] o = "execute" ->
            {ExecArgs(x[1], x[2], x[3], x[4]) :
                x \in Batches \X LogFiles \X BOOLEAN \X Databases}
      [] o = "assert_value_dtype" ->
            {AssertArgs(x[1], x[2], x[3], x[4]) :
                x \in AssertValues \X AssertDtypes \X BOOLEAN \X BOOLEAN}
      [] o = "validate_dtype" ->
            {Args(x[1], x[2], PyNone, PyNone, x[3], PyNone, FALSE, FALSE, x[4]) :
                x \in SchemaNames \X (TableNames \ {PyNone}) \X CatalogColNames \X ValidateValues}
      [] o = "drop_schema_and_recreate" ->
            {SchemaArgs(x[1], x[2], x[3], x[4]) :
                x \in RecreatedSchemas \X BOOLEAN \X BOOLEAN \X Databases}

\* the outcome of a validate_dtype call v
validate_outcome(v) ==
    Outcome(v.exc, IF v.exc = "none" THEN PyBool(v.ret) ELSE PyNone, 0, 0)

NoOutcome == Outcome("pending", PyNone, 0, 0)

(***************************************************************************)
(* The state machine: a call is chosen, then the operation runs.           *)
(***************************************************************************)
Init ==
    /\ pc = "call"
    /\ op \in Ops
    /\ args \in ArgsOf(op)
    /\ result = NoOutcome

SingleQuote ==
    /\ pc = "call" /\ op = "_single_quote"
    /\ result' = Outcome("none", _single_quote(args.val), 0, 0)
    /\ pc' = "done"
    /\ UNCHANGED <<op, args>>

BuildUpdate ==
    /\ pc = "call" /\ op = "build_update"
    /\ result' = build_update(args)
    /\ pc' = "done"
    /\ UNCHANGED <<op, args>>

BuildInsert ==
    /\ pc = "call" /\ op = "build_insert"
    /\ result' = build_insert(args)
    /\ pc' = "done"
    /\ UNCHANGED <<op, args>>

BuildDelete ==
    /\ pc = "call" /\ op = "build_delete"
    /\ result' = build_delete(args)
    /\ pc' = "done"
    /\ UNCHANGED <<op, args>>

GetTableName ==
    /\ pc = "call" /\ op = "get_table_name"
    /\ result' = Outcome(get_table_name(args.schema_name, args.table_name).exc,
                         get_table_name(args.schema_name, args.table_name).ret, 0, 0)
    /\ pc' = "done"
    /\ UNCHANGED <<op, args>>

\* args.columns is the parameter col, args.val the parameter val
ValidateDtype ==
    /\ pc = "call" /\ op = "validate_dtype"
    /\ result' = validate_outcome(validate_dtype(args.schema_name, args.table_name,
                                                 args.columns, args.val))
    /\ pc' = "done"
    /\ UNCHANGED <<op, args>>

Execute ==
    /\ pc = "call" /\ op = "execute"
    /\ result' = execute(args)
    /\ pc' = "done"
    /\ UNCHANGED <<op, args>>

\* the outcome of an assert_value_dtype call r
assert_outcome(r) == Outcome(r.exc, r.ret, 0, 0)

AssertValueDtype ==
    /\ pc = "call" /\ op = "assert_value_dtype"
    /\ result' = assert_outcome(assert_value_dtype(args.value, args.dtype,
                                                   args.return_coerced_value, args.stop))
    /\ pc' = "done"
    /\ UNCHANGED <<op, args>>

\* drop_schema_and_recreate, first statement: self.drop_schema(**args); an exception
\* of the drop leaves the method
DropSchema ==
    /\ pc = "call" /\ op = "drop_schema_and_recreate"
    /\ result' = SchemaOutcome(drop_schema(args, args.db),
                               <<drop_schema_sql(args.schema_name, args.if_exists, args.cascade)>>)
    /\ pc' = IF drop_schema(args, args.db).exc = "none" THEN "create" ELSE "done"
    /\ UNCHANGED <<op, args>>

\* drop_schema_and_recreate, second statement: self.create_schema(schema_name) on the
\* database the drop left
CreateSchema ==
    /\ pc = "create" /\ op = "drop_schema_and_recreate"
    /\ result' = SchemaOutcome(create_schema(args, result.committed),
                               Append(result.calls, create_schema_sql(args.schema_name)))
    /\ pc' = "done"
    /\ UNCHANGED <<op, args>>

Next ==
    \/ SingleQuote \/ BuildUpdate \/ BuildInsert \/ BuildDelete \/ GetTableName
    \/ ValidateDtype \/ Execute \/ AssertValueDtype \/ DropSchema \/ CreateSchema

Spec == Init /\ [][Next]_vars

(***************************************************************************)
(* Vocabulary of the properties.  The expected texts are written out here  *)
(* independently of the operators that model the code.                     *)
(***************************************************************************)
Done(o) == pc = "done" /\ op = o

Returned == result.exc = "none"

\* the length of an argument as a list: a non-list argument counts as one element
ListLen(v) == IF v.t = "list" THEN Len(v.items) ELSE 1

\* the elements of an argument as a list
ListItems(v) == IF v.t = "list" THEN v.items ELSE <<v>>

\* text s with every single quote doubled
Doubled(s) == Flatten([i \in 1..Len(s) |-> IF s[i] = "'" THEN <<"'", "'">> ELSE <<s[i]>>])

\* the literal-quoting rule: native bool, int and float as they are, anything else
\* as its text, quotes doubled, in single quotes
IsNative(v) == v.t \in {"bool", "int", "float"}
LiteralQuoted(v) == IF IsNative(v) THEN v ELSE PyStr(<<"'">> \o Doubled(Str(v)) \o <<"'">>)

\* the null-sentinel tokens
NullTokens == {<<"n","a","n">>, <<"n","/","a">>, <<"n","u","l","l">>, <<"n","o","n","e">>, <<>>}
IsNullSentinel(v) == Lower(Str(v)) \in NullTokens

\* parts joined by ', '
CommaJoined(parts) ==
    Flatten([i \in 1..Len(parts) |-> IF i = 1 THEN parts[i] ELSE <<",", " ">> \o parts[i]])

RECURSIVE SplitFrom(_, _, _)
\* the pieces of text s between occurrences of sep, cur being the piece begun
SplitFrom(s, sep, cur) ==
    IF s = <<>> THEN <<cur>>
    ELSE IF StartsWith(s, sep) THEN <<cur>> \o SplitFrom(Drop(s, Len(sep)), sep, <<>>)
    ELSE SplitFrom(Tail(s), sep, Append(cur, Head(s)))

\* the pieces of text s between occurrences of sep; the empty text has no piece
SplitOn(s, sep) == IF s = <<>> THEN <<>> ELSE SplitFrom(s, sep, <<>>)

\* the qualified table name of the call: the table alone when the schema is omitted
QualifiedName ==
    IF args.schema_name.t = "NoneType" THEN args.table_name.s
    ELSE args.schema_name.s \o <<".">> \o args.table_name.s

\* the separator of the parts of a statement
PartSep == IF args.newlines THEN <<"\n">> ELSE <<" ">>

InQuotes(s) == <<"\"">> \o s \o <<"\"">>

Columns == ListItems(args.columns)
InputValues == ListItems(args.values)

\* the text before the SET entries of an UPDATE, and the text after them
UpdateHead == <<"U","P","D","A","T","E"," ">> \o QualifiedName \o PartSep \o <<"S","E","T"," ">>
UpdateTail ==
    PartSep \o <<"W","H","E","R","E"," ">> \o InQuotes(args.pkey_name.s) \o <<" ","="," ">>
        \o Str(LiteralQuoted(args.pkey_value))

\* the SET entries of the returned UPDATE, each without surrounding whitespace
SetClause == SubSeq(result.ret.s, Len(UpdateHead) + 1, Len(result.ret.s) - Len(UpdateTail))
SetEntries ==
    LET ps == SplitOn(SetClause, <<",", " ">>) IN [i \in 1..Len(ps) |-> Strip(ps[i])]

\* the text before the values of an INSERT
InsertHead ==
    <<"i","n","s","e","r","t"," ","i","n","t","o"," ">> \o QualifiedName \o <<" ", "(">>
        \o CommaJoined([i \in 1..Len(Columns) |-> InQuotes(Columns[i].s)])
        \o <<")">> \o PartSep \o <<"v","a","l","u","e","s"," ","(">>

\* the column names and the values of the returned INSERT
InsertColumnNames ==
    SplitOn(SubSeq(result.ret.s, Len(<<"i","n","s","e","r","t"," ","i","n","t","o"," ">> \o QualifiedName \o <<" ", "(">>) + 1,
                   Len(InsertHead) - Len(<<")">> \o PartSep \o <<"v","a","l","u","e","s"," ","(">>)),
            <<",", " ">>)
InsertValues ==
    SplitOn(SubSeq(result.ret.s, Len(InsertHead) + 1, Len(result.ret.s) - 1), <<",", " ">>)

\* the SET entry of a column and the text of its value
SetEntry(col, valtext) == InQuotes(col.s) \o <<"=">> \o valtext

IsBuilder == op \in {"build_update", "build_insert"}

(***************************************************************************)
(* C1: build_update and build_insert raise whenever the columns and the    *)
(* values, each taken as a list, differ in length; no pair has then been   *)
(* validated, no value rendered and no text returned.                      *)
(***************************************************************************)
C1_MismatchRaisesFirst ==
    (pc = "done" /\ IsBuilder /\ ListLen(args.columns) # ListLen(args.values))
        => /\ result.exc = "Exception"
           /\ result.ret = PyNone
           /\ result.nvalidated = 0
           /\ result.nrendered = 0

C1_Witness ==
    /\ Done("build_update")
    /\ args.validate
    /\ args.columns.t = "str"
    /\ ListLen(args.values) = 2
    /\ result.exc = "Exception"
    /\ result.nvalidated = 0

(***************************************************************************)
(* C2: with validate off and columns and values of equal length n,         *)
(* build_update returns a statement with n SET entries and build_insert    *)
(* one with n column names and n values, the i-th being the i-th input     *)
(* column and the rendering of the i-th input value.                       *)
(***************************************************************************)
C2_EntriesMatchInputs ==
    (pc = "done" /\ IsBuilder /\ ~args.validate /\ ListLen(args.columns) = ListLen(args.values))
        => /\ Returned
           /\ op = "build_update" =>
                /\ Len(SetEntries) = Len(Columns)
                /\ \A i \in 1..Len(Columns) :
                      SetEntries[i] = Strip(SetEntry(Columns[i], Str(update_value(InputValues[i]))))
           /\ op = "build_insert" =>
                /\ Len(InsertColumnNames) = Len(Columns)
                /\ Len(InsertValues) = Len(Columns)
                /\ \A i \in 1..Len(Columns) :
                      /\ InsertColumnNames[i] = InQuotes(Columns[i].s)
                      /\ InsertValues[i] = Str(insert_value(InputValues[i]))

(***************************************************************************)
(* C3: build_update and build_insert render unquoted only native bool, int *)
(* and float values; a str value that is not a null sentinel is rendered   *)
(* literal-quoted, also when it is coercible to a number or a boolean.     *)
(***************************************************************************)
C3_StringsAreQuoted ==
    (pc = "done" /\ IsBuilder /\ Returned)
        => \A i \in 1..Len(Columns) :
              (InputValues[i].t = "str" /\ ~IsNullSentinel(InputValues[i]))
                  => IF op = "build_update"
                     THEN SetEntries[i]
                            = Strip(SetEntry(Columns[i], Str(LiteralQuoted(InputValues[i]))))
                     ELSE InsertValues[i] = Str(LiteralQuoted(InputValues[i]))

(***************************************************************************)
(* C4: _single_quote returns a native bool, int or float unchanged, and    *)
(* for any other value its text with every single quote doubled, wrapped   *)
(* in one pair of single quotes.                                           *)
(***************************************************************************)
C4_SingleQuoteRule ==
    Done("_single_quote")
        => /\ Returned
           /\ IF args.val.t \in {"bool", "int", "float"}
              THEN result.ret = args.val
              ELSE result.ret = PyStr(<<"'">> \o Doubled(Str(args.val)) \o <<"'">>)

C4_Witness ==
    /\ Done("_single_quote")
    /\ args.val = PyStr(<<"a", "'", "'", "a">>)
    /\ result.ret = PyStr(<<"'", "a", "'", "'", "'", "'", "a", "'">>)

(***************************************************************************)
(* C5: for a str s, _single_quote(s) without its outer pair of single      *)
(* quotes and with every doubled single quote replaced by one is s again.  *)
(***************************************************************************)
C5_QuoteRoundTrip ==
    (Done("_single_quote") /\ args.val.t = "str")
        => /\ result.ret.t = "str"
           /\ Len(result.ret.s) >= 2
           /\ Head(result.ret.s) = "'"
           /\ result.ret.s[Len(result.ret.s)] = "'"
           /\ Replace(SubSeq(result.ret.s, 2, Len(result.ret.s) - 1), <<"'", "'">>, <<"'">>)
                = args.val.s

C5_Witness ==
    /\ Done("_single_quote")
    /\ args.val = PyStr(<<"'", "'", "a", "'">>)
    /\ Returned

(***************************************************************************)
(* C6: a value whose text, case-folded, is one of nan, n/a, null, none or  *)
(* the empty text is rendered as the bare literal NULL by build_update and *)
(* null by build_insert.                                                   *)
(***************************************************************************)
C6_NullSentinelRendering ==
    (pc = "done" /\ IsBuilder /\ Returned)
        => \A i \in 1..Len(Columns) :
              IsNullSentinel(InputValues[i])
                  => IF op = "build_update"
                     THEN SetEntries[i] = SetEntry(Columns[i], <<"N","U","L","L">>)
                     ELSE InsertValues[i] = <<"n","u","l","l">>

C6_Witness ==
    /\ Done("build_insert")
    /\ Returned
    /\ ListLen(args.values) = 2
    /\ InputValues[1] = PyStr(<<"N","a","N">>)
    /\ InputValues[2] = PyNone
    /\ InsertValues = << <<"n","u","l","l">>, <<"n","u","l","l">> >>

(***************************************************************************)
(* C7: without pretty-printing build_update returns, on one line,          *)
(* UPDATE <table> SET "<col1>"=<val1>, "<col2>"=<val2>, ... WHERE          *)
(* "<pkey_name>" = <pkey literal>: the entries joined by ', ', the column  *)
(* names and the primary-key name in double quotes, the primary-key value  *)
(* literal-quoted, with validate set or not.                               *)
(***************************************************************************)
C7_UpdateOneLine ==
    (Done("build_update") /\ ~args.newlines /\ Returned)
        => result.ret =
              PyStr(<<"U","P","D","A","T","E"," ">> \o QualifiedName \o <<" ","S","E","T"," ">>
                    \o CommaJoined([i \in 1..Len(Columns) |->
                                      SetEntry(Columns[i], Str(update_value(InputValues[i])))])
                    \o <<" ","W","H","E","R","E"," ">> \o InQuotes(args.pkey_name.s) \o <<" ","="," ">>
                    \o Str(LiteralQuoted(args.pkey_value)))

C7_Witness ==
    /\ Done("build_update")
    /\ ~args.newlines
    /\ args.validate
    /\ Returned
    /\ Len(Columns) = 2
    /\ args.pkey_value.t = "str"
    /\ result.nvalidated = 2

(***************************************************************************)
(* C8: build_insert returns insert into <table> ("<col1>", "<col2>", ...)  *)
(* and values (<val1>, <val2>, ...), joined by one space without           *)
(* pretty-printing and by one newline with it; the column names are in     *)
(* double quotes and joined by ', ', the values joined by ', ' in input    *)
(* order.                                                                  *)
(***************************************************************************)
C8_InsertLayout ==
    (Done("build_insert") /\ Returned)
        => result.ret =
              PyStr(<<"i","n","s","e","r","t"," ","i","n","t","o"," ">> \o QualifiedName \o <<" ", "(">>
                    \o CommaJoined([i \in 1..Len(Columns) |-> InQuotes(Columns[i].s)])
                    \o <<")">> \o (IF args.newlines THEN <<"\n">> ELSE <<" ">>)
                    \o <<"v","a","l","u","e","s"," ","(">>
                    \o CommaJoined([i \in 1..Len(Columns) |-> Str(insert_value(InputValues[i]))])
                    \o <<")">>)

(***************************************************************************)
(* C9: build_delete renders delete from <table> where <pkey_name> in       *)
(* (<literal1>, <literal2>, ...) for a list of primary-key values, each    *)
(* element literal-quoted on its own, and delete from <table> where        *)
(* <pkey_name> = <literal> for any other value; the primary-key name is    *)
(* not quoted.                                                             *)
(***************************************************************************)
C9_DeleteLayout ==
    Done("build_delete")
        => /\ Returned
           /\ result.ret =
                PyStr(<<"d","e","l","e","t","e"," ","f","r","o","m"," ">> \o QualifiedName
                      \o (IF args.newlines THEN <<"\n">> ELSE <<" ">>)
                      \o <<"w","h","e","r","e"," ">> \o args.pkey_name.s
                      \o (IF args.pkey_value.t = "list"
                          THEN <<" ","i","n"," ","(">>
                                 \o CommaJoined([i \in 1..Len(args.pkey_value.items) |->
                                                   Str(LiteralQuoted(args.pkey_value.items[i]))])
                                 \o <<")">>
                          ELSE <<" ","="," ">> \o Str(LiteralQuoted(args.pkey_value))))

C9_Witness ==
    /\ Done("build_delete")
    /\ Returned
    /\ args.pkey_value = PyList(<<PyInt(5), PyStr(<<"a", "'", "b">>)>>)
    /\ ~args.newlines

C11_FirstIncompatibleAborts ==
    (pc = "done" /\ IsBuilder /\ args.validate /\ ListLen(args.columns) = ListLen(args.values))
        => LET test(i) == validate_dtype(args.schema_name, args.table_name,
                                         Columns[i], InputValues[i])
           IN  \A k \in 1..Len(Columns) :
                  (/\ test(k).exc = "none" /\ ~test(k).ret
                   /\ \A j \in 1..(k - 1) : test(j).exc = "none" /\ test(j).ret)
                      => /\ result.exc = "Exception"
                         /\ result.ret = PyNone
                         /\ result.nvalidated = k

C11_Witness ==
    /\ Done("build_insert")
    /\ args.validate
    /\ args.schema_name = PyStr(<<"s">>)
    /\ Columns = <<PyStr(<<"a">>), PyStr(<<"b">>)>>
    /\ InputValues = <<PyStr(<<"a","b">>), PyStr(<<"a","b">>)>>
    /\ result.exc = "Exception"
    /\ result.nvalidated = 1

(***************************************************************************)
(* C12: get_table_name returns table_name alone when schema_name is None,  *)
(* schema_name + '.' + table_name otherwise, and fails at once when        *)
(* table_name is None.                                                     *)
(***************************************************************************)
C12_GetTableName ==
    Done("get_table_name")
        => IF args.table_name.t = "NoneType"
           THEN result.exc = "AssertionError" /\ result.ret = PyNone
           ELSE /\ Returned
                /\ result.ret = IF args.schema_name.t = "NoneType"
                                THEN args.table_name
                                ELSE PyStr(args.schema_name.s \o <<".">> \o args.table_name.s)

C12_Witness ==
    /\ Done("get_table_name")
    /\ args.schema_name = PyNone
    /\ result.ret = PyStr(<<"p","g","_","t">>)

(***************************************************************************)
(* Vocabulary of the validate_dtype properties: the column asked about as  *)
(* the database holds it, and the datatype map read in either direction.   *)
(***************************************************************************)
\* the schema the column is looked up in
LookupSchema ==
    IF StartsWith(args.table_name.s, <<"p","g","_">>)
    THEN <<"p","g","_","c","a","t","a","l","o","g">> ELSE args.schema_name.s

IsTheColumn(r) ==
    /\ args.schema_name.t = "str" \/ StartsWith(args.table_name.s, <<"p","g","_">>)
    /\ r.table_schema = LookupSchema
    /\ r.table_name = args.table_name.s
    /\ r.column_name = args.columns.s

ColumnExists == \E i \in 1..Len(InfoSchemaColumns) : IsTheColumn(InfoSchemaColumns[i])

TheColumn == InfoSchemaColumns[CHOOSE i \in 1..Len(InfoSchemaColumns) :
                                   IsTheColumn(InfoSchemaColumns[i])]

Nullable == TheColumn.is_nullable = "YES"

\* the bucket of the first entry among the entries at the indexes in hits
FirstBucket(hits) ==
    IF hits = {} THEN "none"
    ELSE dtype_map[CHOOSE i \in hits : \A j \in hits : i <= j][2]

\* the bucket of the first entry whose key contains the reported datatype
BucketByContainingKey(dtype) ==
    FirstBucket({i \in 1..Len(dtype_map) : IsSubstr(dtype, dtype_map[i][1])})

\* the bucket of the first entry whose key the reported datatype contains
BucketByContainedKey(dtype) ==
    FirstBucket({i \in 1..Len(dtype_map) : IsSubstr(dtype_map[i][1], dtype)})

IsNullValue(v) == v = PyStr(<<"N","U","L","L">>) \/ v = PyNone

BoolTokens == {<<"t">>, <<"t","r","u","e">>, <<"f">>, <<"f","a","l","s","e">>}

\* text s parses cleanly as the type of the bucket
ParsesAs(bucket, s) ==
    CASE bucket = "int" -> IntParses(s)
      [] bucket = "float" -> FloatParses(s)
      [] bucket = "bool" -> Lower(s) \in BoolTokens

\* a str that is neither NULL nor the spelling of a number or a boolean
IsPlainText(v) ==
    /\ v.t = "str"
    /\ ~IsNullValue(v)
    /\ ~IntParses(v.s) /\ ~FloatParses(v.s) /\ Lower(v.s) \notin BoolTokens

ValidatedColumn == Done("validate_dtype") /\ ColumnExists

(***************************************************************************)
(* C13: validate_dtype reports a native int compatible with every existing *)
(* column whose datatype it resolves to the int bucket, and a native bool  *)
(* compatible with every existing column of the bool bucket.               *)
(***************************************************************************)
C13_NativeValuesCompatible ==
    ValidatedColumn
        => /\ (args.val.t = "int" /\ BucketByContainingKey(TheColumn.data_type) = "int")
                 => result.exc = "none" /\ result.ret = PyBool(TRUE)
           /\ (args.val.t = "bool" /\ BucketByContainingKey(TheColumn.data_type) = "bool")
                 => result.exc = "none" /\ result.ret = PyBool(TRUE)

C13_Witness ==
    /\ ValidatedColumn
    /\ TheColumn.data_type = <<"b","o","o","l","e","a","n">>
    /\ args.val = PyBool(FALSE)
    /\ result.ret = PyBool(TRUE)

(***************************************************************************)
(* C14, as claimed: validate_dtype never reports a str compatible with a   *)
(* column of the int, float or bool bucket unless the str parses cleanly   *)
(* as that type.                                                           *)
(***************************************************************************)
C14_StringsMustParse ==
    (/\ ValidatedColumn
     /\ args.val.t = "str"
     /\ BucketByContainingKey(TheColumn.data_type) \in {"int", "float", "bool"}
     /\ result.ret = PyBool(TRUE))
        => ParsesAs(BucketByContainingKey(TheColumn.data_type), args.val.s)

(***************************************************************************)
(* C14, amended: validate_dtype never reports a str compatible with a      *)
(* column of the int, float or bool bucket unless the str parses cleanly   *)
(* as that type, or the str is 'NULL' and the column is nullable.          *)
(***************************************************************************)
C14_StringsMustParseOrBeNull ==
    (/\ ValidatedColumn
     /\ args.val.t = "str"
     /\ BucketByContainingKey(TheColumn.data_type) \in {"int", "float", "bool"}
     /\ result.ret = PyBool(TRUE))
        => \/ ParsesAs(BucketByContainingKey(TheColumn.data_type), args.val.s)
           \/ args.val.s = <<"N","U","L","L">> /\ Nullable

C14_Witness ==
    /\ ValidatedColumn
    /\ TheColumn.data_type = <<"i","n","t","e","g","e","r">>
    /\ args.val = PyStr(<<"N","U","L","L">>)
    /\ result.ret = PyBool(TRUE)

(***************************************************************************)
(* C15, as claimed: for an existing column whose reported datatype matches *)
(* no entry of the datatype map, validate_dtype returns false for every    *)
(* value and never raises.                                                 *)
(***************************************************************************)
C15_UnknownDatatypeIsFalse ==
    (ValidatedColumn /\ BucketByContainingKey(TheColumn.data_type) = "none")
        => result.exc = "none" /\ result.ret = PyBool(FALSE)

(***************************************************************************)
(* C15, amended: for an existing column whose reported datatype matches no *)
(* entry of the datatype map, validate_dtype never raises; it returns      *)
(* false for every value but the NULL sentinel ('NULL' or None), for which *)
(* it returns the nullability flag of the column.                          *)
(***************************************************************************)
C15_UnknownDatatypeIsFalseUnlessNull ==
    (ValidatedColumn /\ BucketByContainingKey(TheColumn.data_type) = "none")
        => /\ result.exc = "none"
           /\ result.ret = PyBool(IsNullValue(args.val) /\ Nullable)

C15_Witness ==
    /\ ValidatedColumn
    /\ TheColumn.data_type = <<"b","y","t","e","a">>
    /\ Nullable
    /\ args.val = PyInt(5)
    /\ result.ret = PyBool(FALSE)

C17_NullIffNullable ==
    (ValidatedColumn /\ IsNullValue(args.val))
        => result.exc = "none" /\ result.ret = PyBool(Nullable)

C17_Witness ==
    /\ ValidatedColumn
    /\ TheColumn.data_type = <<"b","o","o","l","e","a","n">>
    /\ ~Nullable
    /\ args.val = PyNone
    /\ result.ret = PyBool(FALSE)

(***************************************************************************)
(* C18, as claimed: for a column of the str bucket validate_dtype returns  *)
(* true for a str value and false for every other value.                   *)
(***************************************************************************)
C18_StrBucketOnlyStrings ==
    (ValidatedColumn /\ BucketByContainingKey(TheColumn.data_type) = "str")
        => result.exc = "none" /\ result.ret = PyBool(args.val.t = "str")

(***************************************************************************)
(* C18, amended: for a column of the str bucket and a value that is not    *)
(* the NULL sentinel, validate_dtype returns true for a str value and      *)
(* false for every other value, except that a date or datetime value is    *)
(* reported compatible exactly when the reported datatype contains 'date'  *)
(* or 'timestamp'.                                                         *)
(***************************************************************************)
C18_StrBucketRule ==
    (/\ ValidatedColumn
     /\ BucketByContainingKey(TheColumn.data_type) = "str"
     /\ ~IsNullValue(args.val))
        => /\ result.exc = "none"
           /\ result.ret =
                PyBool(IF args.val.t \in {"date", "datetime"}
                       THEN \/ IsSubstr(<<"d","a","t","e">>, TheColumn.data_type)
                            \/ IsSubstr(<<"t","i","m","e","s","t","a","m","p">>, TheColumn.data_type)
                       ELSE args.val.t = "str")

C18_Witness ==
    /\ ValidatedColumn
    /\ TheColumn.data_type = <<"c","h","a","r","a","c","t","e","r"," ","v","a","r","y","i","n","g">>
    /\ args.val = PyInt(5)
    /\ result.ret = PyBool(FALSE)

(***************************************************************************)
(* C19: a batch passed to one execute call is atomic.  If every statement  *)
(* succeeds, all are committed together; if a statement raises, no         *)
(* statement of the batch takes effect, the statements after it are not    *)
(* executed, and the error reaches the caller with no retry.               *)
(***************************************************************************)
C19_BatchAtomic ==
    Done("execute")
        => LET stmts == [i \in 1..ListLen(args.sql) |-> ListItems(args.sql)[i].s]
               raising == {i \in 1..Len(stmts) : stmts[i] \in FailingStatements}
           IN  IF raising = {}
               THEN /\ result.exc = "none"
                    /\ result.committed = args.db \o stmts
                    /\ result.executed = Len(stmts)
               ELSE /\ result.exc = "DatabaseError"
                    /\ result.committed = args.db
                    /\ result.executed = CHOOSE k \in raising : \A j \in raising : k <= j

C19_Witness ==
    /\ Done("execute")
    /\ args.sql = PyList(<<PyStr(<<"a">>), PyStr(<<"x">>), PyStr(<<"b">>)>>)
    /\ args.db = << <<"z">> >>
    /\ result.committed = << <<"z">> >>
    /\ result.executed = 2
    /\ result.exc = "DatabaseError"

(***************************************************************************)
(* C20: with neither return_coerced_value nor stop set and a valid dtype,  *)
(* assert_value_dtype never raises; a value that cannot be coerced, a      *)
(* non-str value checked against 'path' among them, yields False.          *)
(***************************************************************************)
C20_NeverRaisesByDefault ==
    (/\ Done("assert_value_dtype")
     /\ ~args.return_coerced_value /\ ~args.stop
     /\ args.dtype \in valid_dtypes)
        => /\ result.exc = "none"
           /\ result.ret \in {PyBool(TRUE), PyBool(FALSE)}
           /\ (args.dtype = "path" /\ args.value.t # "str") => result.ret = PyBool(FALSE)

\* the value is coercible to the target type: the coercion yields a value
CoercionYields(c) == c.exc = "none" /\ c.val # PyNone

\* what the claim expects of a call whose coercion attempt is c
CoercionContract(c, return_coerced_value) ==
    IF return_coerced_value
    THEN IF CoercionYields(c)
         THEN result.exc = "none" /\ result.ret = c.val
         ELSE result.exc = "ValueError"
    ELSE (result.exc = "none" /\ result.ret = PyBool(TRUE)) <=> CoercionYields(c)

(***************************************************************************)
(* C21: with return_coerced_value set, assert_value_dtype returns the      *)
(* coerced value when the value is coercible and raises a ValueError when  *)
(* it is not; with return_coerced_value unset it returns True exactly when *)
(* the value is coercible.                                                 *)
(***************************************************************************)
C21_CoercedOrValueError ==
    (Done("assert_value_dtype") /\ args.dtype \in valid_dtypes)
        => CoercionContract(coerced_value(args.value, args.dtype, FALSE),
                            args.return_coerced_value)

\* the text has a timezone suffix: a sign after the nineteen characters of the
\* date and time, then hours, ':' and minutes
HasTzSuffix(s) ==
    /\ DatetimeTimezoneMatches(s)
    /\ Len(SplitOn(SubSeq(s, 21, Len(s)), <<":">>)) = 2

\* sign x (HH x 3600 + MM x 60) of the suffix
ParsedOffset(s) ==
    LET hm == SplitOn(SubSeq(s, 21, Len(s)), <<":">>)
    IN  (IF s[20] = "-" THEN -1 ELSE 1)
            * (DigitRunVal(hm[1], 0) * 3600 + DigitRunVal(hm[2], 0) * 60)

\* what the claim expects of the datetime returned for text s
OffsetAttached(s) ==
    /\ result.ret.t = "datetime"
    /\ result.ret.items[8] = PyInt(ParsedOffset(s))

(***************************************************************************)
(* C22: for a datetime string with a timezone suffix +-HH:MM,              *)
(* assert_value_dtype(value, 'datetime', return_coerced_value=True)        *)
(* returns a datetime whose UTC offset in seconds is                       *)
(* sign x (HH x 3600 + MM x 60).                                           *)
(***************************************************************************)
C22_OffsetHasMinutes ==
    (/\ Done("assert_value_dtype") /\ args.dtype = "datetime"
     /\ args.return_coerced_value /\ Returned
     /\ args.value.t = "str" /\ HasTzSuffix(Strip(args.value.s)))
        => OffsetAttached(Strip(args.value.s))

\* the table of the call is a builtin catalog table
IsBuiltinTable == StartsWith(args.table_name.s, <<"p","g","_">>)

\* the call as validate_dtype answers it when the caller passes schema s instead
AnswerUnderSchema(s) ==
    validate_outcome(validate_dtype(s, args.table_name, args.columns, args.val))

(***************************************************************************)
(* C23: for a table name starting with 'pg_', validate_dtype looks the     *)
(* column up under schema 'pg_catalog': the column is missing exactly when *)
(* pg_catalog lacks it, NULL is judged by the nullability pg_catalog       *)
(* reports, and the result is the same for every schema_name the caller    *)
(* passes, None included.                                                  *)
(***************************************************************************)
C23_BuiltinTablesIgnoreSchema ==
    (Done("validate_dtype") /\ IsBuiltinTable)
        => /\ (result.exc = "AssertionError") <=> ~ColumnExists
           /\ (ColumnExists /\ IsNullValue(args.val)) => result.ret = PyBool(Nullable)
           /\ \A s \in SchemaNames : AnswerUnderSchema(s) = result

\* NULL for pg_t.a, asked under schema s where a table of that name has a nullable
\* column a: refused, as pg_catalog.pg_t.a is not nullable
C23_Witness ==
    /\ Done("validate_dtype") /\ IsBuiltinTable
    /\ args.schema_name = PyStr(<<"s">>)
    /\ args.columns = PyStr(<<"a">>)
    /\ args.val = PyNone
    /\ result.exc = "none" /\ result.ret = PyBool(FALSE)

(***************************************************************************)
(* C24: when the catalog has no row for the (schema, table, column) of the *)
(* call, validate_dtype fails with an assertion error instead of returning *)
(* true or false, for every value, NULL and None included.                 *)
(***************************************************************************)
C24_MissingColumnAsserts ==
    (Done("validate_dtype") /\ ~ColumnExists)
        => result.exc = "AssertionError" /\ result.ret = PyNone

\* None asked of a column the catalog lacks
C24_Witness ==
    /\ Done("validate_dtype") /\ ~ColumnExists
    /\ args.columns = PyStr(<<"z">>)
    /\ args.val = PyNone
    /\ result.exc = "AssertionError"

\* a str value with an embedded single quote: no null sentinel and coercible to
\* no number and no boolean, so build_insert renders it through _single_quote
IsQuotedText(v) ==
    /\ v.t = "str"
    /\ ~IsNullSentinel(v)
    /\ IsSubstr(<<"'">>, v.s)

(***************************************************************************)
(* C25: in the statement build_insert returns, a string value that is not  *)
(* a null sentinel appears in the VALUES list as exactly its               *)
(* literal-quoted form: unquoting the token 'null' in the joined VALUES    *)
(* text alters the literal of no other value, a value holding the text     *)
(* 'null' between single quotes included.                                  *)
(***************************************************************************)
C25_NullUnquotingKeepsLiterals ==
    (Done("build_insert") /\ Returned)
        => /\ Len(InsertValues) = Len(Columns)
           /\ \A i \in 1..Len(Columns) :
                 IsQuotedText(InputValues[i])
                     => InsertValues[i] = Str(LiteralQuoted(InputValues[i]))

\* the catalog reports column col of the table of a builder call as nullable
ColumnNullable(col) ==
    \E i \in 1..Len(InfoSchemaColumns) :
        /\ args.schema_name = PyStr(InfoSchemaColumns[i].table_schema)
        /\ args.table_name = PyStr(InfoSchemaColumns[i].table_name)
        /\ col = PyStr(InfoSchemaColumns[i].column_name)
        /\ InfoSchemaColumns[i].is_nullable = "YES"

\* the i-th value of the returned statement is the null literal
RenderedNull(i) ==
    IF op = "build_update"
    THEN SetEntries[i] = SetEntry(Columns[i], <<"N","U","L","L">>)
    ELSE InsertValues[i] = <<"n","u","l","l">>

(***************************************************************************)
(* C26: with validate set, whenever build_update or build_insert returns a *)
(* statement in which a column's value is rendered as the null literal,    *)
(* the catalog reports that column as nullable, for every null-sentinel    *)
(* spelling of the input value and not only for 'NULL' and None.           *)
(***************************************************************************)
C26_NullOnlyIntoNullable ==
    (pc = "done" /\ IsBuilder /\ Returned /\ args.validate)
        => \A i \in 1..Len(Columns) :
              (IF op = "build_update" THEN i <= Len(SetEntries) ELSE i <= Len(InsertValues))
                  => (RenderedNull(i) => ColumnNullable(Columns[i]))

\* the statements of the batch of an execute call; an execute call given a logfile
BatchStatements == [i \in 1..ListLen(args.sql) |-> ListItems(args.sql)[i].s]
LoggedWithLogfile == Done("execute") /\ args.logfile # PyNone

(***************************************************************************)
(* C27: when execute is given a logfile, every statement the call appended *)
(* to the log file is a statement whose effect was committed; a batch that *)
(* fails and is rolled back leaves no entry of its statements in the log.  *)
(***************************************************************************)
C27_LogOnlyCommitted ==
    LoggedWithLogfile
        => /\ result.committed = args.db \o result.logged
           /\ result.exc # "none" => result.logged = <<>>

(***************************************************************************)
(* C27, as the code has it: when execute is given a logfile, the           *)
(* statements a successful call appended to the log file are the           *)
(* statements of the batch, all committed; a batch that fails and is       *)
(* rolled back leaves in the log the entries of the statements executed    *)
(* before the failing one, none of which is committed.                     *)
(***************************************************************************)
C27_LogIsExecutedPrefix ==
    LoggedWithLogfile
        => IF result.exc = "none"
           THEN /\ result.logged = BatchStatements
                /\ result.committed = args.db \o result.logged
           ELSE /\ result.logged = SubSeq(BatchStatements, 1, result.executed - 1)
                /\ result.committed = args.db

\* the second statement of a logged batch fails: the first stays in the log and
\* is not committed
C27_Witness ==
    /\ LoggedWithLogfile
    /\ args.sql = PyList(<<PyStr(<<"a">>), PyStr(<<"x">>), PyStr(<<"b">>)>>)
    /\ args.db = <<>>
    /\ result.exc = "DatabaseError"
    /\ result.logged = << <<"a">> >>
    /\ result.committed = <<>>

\* the two statements of a drop_schema_and_recreate call, written out
DropStatement ==
    <<"d","r","o","p"," ","s","c","h","e","m","a"," ">>
        \o (IF args.if_exists THEN <<"i","f"," ","e","x","i","s","t","s"," ">> ELSE <<>>)
        \o args.schema_name.s
        \o (IF args.cascade THEN <<" ","c","a","s","c","a","d","e">> ELSE <<>>)
CreateStatement == <<"c","r","e","a","t","e"," ","s","c","h","e","m","a"," ">> \o args.schema_name.s

Recreating == op = "drop_schema_and_recreate" /\ pc # "call"

(***************************************************************************)
(* C28: drop_schema_and_recreate issues the drop-schema statement strictly *)
(* before the create-schema statement, each in an execute call and so in a *)
(* transaction of its own, and issues the create only if the drop          *)
(* completed without error; a failure of the create leaves the schema      *)
(* dropped.                                                                *)
(***************************************************************************)
C28_DropThenCreate ==
    Recreating
        => /\ result.calls \in {<<DropStatement>>, <<DropStatement, CreateStatement>>}
           /\ result.executed = 1
           /\ pc = "create"
                => /\ result.calls = <<DropStatement>>
                   /\ result.exc = "none"
                   /\ result.committed = Append(args.db, DropStatement)
           /\ (pc = "done" /\ result.calls = <<DropStatement>>)
                => /\ result.exc # "none"
                   /\ result.committed = args.db
           /\ (pc = "done" /\ Len(result.calls) = 2)
                => IF result.exc = "none"
                   THEN result.committed = args.db \o <<DropStatement, CreateStatement>>
                   ELSE result.committed = Append(args.db, DropStatement)

\* the drop of a schema that does not exist succeeds with if exists, then the create
\* of the reserved name fails: the drop stays committed
C28_Witness ==
    /\ Recreating /\ pc = "done"
    /\ args.schema_name = PyStr(<<"p","g","_","x">>)
    /\ args.if_exists
    /\ result.calls = <<DropStatement, CreateStatement>>
    /\ result.exc = "DatabaseError"
    /\ result.committed = Append(args.db, DropStatement)

\* the reported datatype of the column asked about is a key of the map; its own bucket
ReportedIsKey == \E i \in 1..Len(dtype_map) : dtype_map[i][1] = TheColumn.data_type
OwnBucket ==
    dtype_map[CHOOSE i \in 1..Len(dtype_map) : dtype_map[i][1] = TheColumn.data_type][2]

\* the buckets that accept native value v
AcceptingBuckets(v) ==
    CASE v.t = "bool" -> {"bool", "int", "float"}
      [] v.t = "int" -> {"int", "float"}
      [] OTHER -> {}

(***************************************************************************)
(* C29: the first-match bucket resolution of validate_dtype is consistent  *)
(* with the datatype map: for every key of the map used as the reported    *)
(* datatype the resolved bucket is that key's own bucket, and a native     *)
(* bool or int asked of a column whose reported datatype is a key is       *)
(* accepted exactly when the key's own bucket accepts it.                  *)
(***************************************************************************)
C29_FirstMatchIsOwnBucket ==
    /\ \A i \in 1..Len(dtype_map) :
          /\ python_dtypes(dtype_map[i][1]) # <<>>
          /\ python_dtypes(dtype_map[i][1])[1][2] = dtype_map[i][2]
    /\ (ValidatedColumn /\ ReportedIsKey /\ args.val.t \in {"bool", "int"})
          => result.ret = PyBool(OwnBucket \in AcceptingBuckets(args.val))

\* True asked of a column of datatype bool, whose first match is the earlier key
\* boolean
C29_Witness ==
    /\ ValidatedColumn /\ ReportedIsKey
    /\ TheColumn.data_type = <<"b","o","o","l">>
    /\ python_dtypes(TheColumn.data_type)[1][1] = <<"b","o","o","l","e","a","n">>
    /\ args.val = PyBool(TRUE)
    /\ result.ret = PyBool(TRUE)

====
